---- MODULE Spec2Model ----
(***************************************************************************)
(* The enrichment workers of src/bookmarks/threads.py: one bounded deque   *)
(* of weak references to row records, the `process` decorator that wraps   *)
(* every worker's process_data slot, the three worker bodies (InfoWorker,  *)
(* ThumbnailWorker, TaskFolderWorker), the two admission paths             *)
(* (BaseThread.add_to_queue, BaseWorker.add_model_to_queue), the           *)
(* cancellation primitive BaseWorker.reset_queue, and the tier reset of    *)
(* src/bookmarks/assetswidget.py (AssetModel.__initdata__), which replaces *)
(* the tier data map and thereby kills every weak reference to an old row. *)
(*                                                                         *)
(* A tick of the worker (check_queue -> process_data) is modelled one      *)
(* statement group at a time, because the row records and the interrupt    *)
(* flag are shared with other threads: the UI thread admits references and *)
(* resets the tier, and reset_queue is a slot connected with               *)
(* DirectConnection (threads.py:263), so its three statements run on the   *)
(* thread that emits the signal and interleave with a tick in progress.    *)
(***************************************************************************)
EXTENDS Integers, Sequences, FiniteSets, TLC

\* Capacity of the worker queue, common.MAXITEMS (threads.py:49-53).
MAXITEMS == 2

\* What one scan of the tier finds: the common.TypeRole of each row it
\* creates, in index order.  InfoWorker branches on the two values
\* (threads.py:432, 518).
Scan == <<"sequence", "file">>

VARIABLES
    loaded,     \* task_folder in INTERNAL_MODEL_DATA: __initdata__ has run
    rows,       \* INTERNAL_MODEL_DATA[task_folder][data_type]: id -> row record
    queue,      \* QUEUES[queue_type]: left end first, right end last
    interrupt,  \* worker.interrupt
    rq,         \* position of a running reset_queue()
    wkind,      \* the class of the worker that owns the queue
    pc,         \* position of the worker inside check_queue / process_data
    cur,        \* `ref`, the weak reference popped by the wrapper
    st,         \* position inside the worker body
    count,      \* TaskFolderWorker: local `count`
    result,     \* return value of the body
    exc,        \* exception leaving the wrapper, "none" if there is none
    n,          \* check_queue: local `n`
    cancelled,  \* history: the body returned because it saw interrupt mid-row
    stale,      \* history: the tier was reset after `ref` was popped
    tout,       \* history: what ThumbnailWorker's try block met in this pass
    flags,      \* list view: row -> its favourite, archived and active bits
    favourites, \* local_settings 'favourites': the saved paths
    filter_mode,\* FilterProxyModel.filter_mode
    ta,         \* toggle_archived: the row it is working on and how far it is
    op,         \* history: the list-view handler that ran last
    active,     \* LocalSettings: activepath/<key> holds a value, per key
    fs,         \* the filesystem, as far as verify_paths looks at it
    verified,   \* history: verify_paths ran and nothing has changed since
    locks,      \* the lock files in the data directory
    alive,      \* psutil.pids()
    dropped,    \* history: the lock files prune_lockfile has removed
    mode,       \* LocalSettings._current_mode, {} before __init__ has set it
    store,      \* the backing settings file: key -> what QSettings holds
    overlay,    \* LocalSettings.INTERNAL_SETTINGS_DATA
    call,       \* history: the last call of value() or setValue()
    fn,         \* the function that was called, "none" before
    arg,        \* its argument
    res,        \* what it returned
    data,       \* ImageCache._data: the keys it holds
    tpc,        \* image cache: thread -> where it is in get() or remove()
    tloc,       \* image cache: thread -> its local variables
    thumbfile,  \* the thumbnail file of the row exists on disk
    irow,       \* the row of the list whose thumbnail is at stake
    mutex,      \* the global name mutex: "unbound", "free" or its holder
    bqueue,     \* BaseWorker.queue.queue: the set behind the Unique queue
    indexes_in_progress, \* BaseWorker.indexes_in_progress
    wpc,        \* worker -> where it is in begin_processing
    windex,     \* worker -> the local index of begin_processing
    shutdown_requested, \* worker -> its shutdown_requested
    sd,         \* worker -> where the call of shutdown() on it is
    finished,   \* worker -> finished has been emitted
    pmodes,     \* process -> its _current_mode, {} before it has started
    elock,      \* the lock file of the item: open and stamp (0 is None)
    est,        \* editor -> where its widget is
    ero,        \* editor -> its read_only
    estamp,     \* editor -> its lockstamp
    eseen       \* editor -> open and stamp as init_lock has read them

workerVars == <<loaded, rows, queue, interrupt, rq, wkind, pc, cur, st, count,
                result, exc, n, cancelled, stale, tout>>

uiVars == <<flags, favourites, filter_mode, ta, op>>

pathVars == <<active, fs, verified>>

modeVars == <<locks, alive, dropped, mode>>

settingsVars == <<store, overlay, call>>

callVars == <<fn, arg, res>>

cacheVars == <<data, tpc, tloc, thumbfile, irow>>

bqVars == <<mutex, bqueue, indexes_in_progress, wpc, windex,
           shutdown_requested, sd, finished>>

startVars == <<pmodes>>

editorVars == <<elock, est, ero, estamp, eseen>>

\* The parts of the program that follow the pure functions below.
laterVars == <<cacheVars, bqVars, startVars, editorVars>>

vars == <<workerVars, uiVars, pathVars, modeVars, settingsVars, callVars,
          laterVars>>

\* What the steps of each part of the program leave alone.
outsideWorker ==
    <<uiVars, pathVars, modeVars, settingsVars, callVars, laterVars>>

outsideUi ==
    <<workerVars, pathVars, modeVars, settingsVars, callVars, laterVars>>

outsidePaths ==
    <<workerVars, uiVars, modeVars, settingsVars, callVars, laterVars>>

outsideMode ==
    <<workerVars, uiVars, pathVars, settingsVars, callVars, laterVars>>

outsideSettings ==
    <<workerVars, uiVars, pathVars, locks, alive, dropped, callVars,
      laterVars>>

outsideCall ==
    <<workerVars, uiVars, pathVars, modeVars, settingsVars, laterVars>>

outsideCache ==
    <<workerVars, uiVars, pathVars, modeVars, settingsVars, callVars, bqVars,
      startVars, editorVars>>

outsideBq ==
    <<workerVars, uiVars, pathVars, modeVars, settingsVars, callVars,
      cacheVars, startVars, editorVars>>

outsideStart ==
    <<workerVars, uiVars, pathVars, mode, settingsVars, callVars, cacheVars,
      bqVars, editorVars>>

outsideEditor ==
    <<workerVars, uiVars, pathVars, modeVars, settingsVars, callVars,
      cacheVars, bqVars, startVars>>

WorkerKinds == {"info", "thumb", "task"}

\* Exception classes a body can raise; "OSError" stands for every class that
\* is none of the four the wrapper names.
ExcTypes == {"IndexError", "ValueError", "RuntimeError", "TypeError", "OSError"}

NoRef == [id |-> 0, live |-> FALSE]

\* A weak reference whose row is gone; nothing tells two of them apart but
\* their identity, which no admission test gets to use (add_to_queue
\* refuses a dead reference whatever `ref not in q` says).
DeadRef == [id |-> -1, live |-> FALSE]

\* common.TypeRole of the row with index i, as the scan wrote it.
TypeRole(i) == Scan[i]

\* common.EntryRole of a sequence row: what entry.stat() gives for each of
\* its DirEntry instances.  A file row has the first of them only.
Entries == <<[st_size |-> 1, st_mtime |-> 2], [st_size |-> 2, st_mtime |-> 1]>>

\* The writes InfoWorker.process_data makes, in program order.  "paths" are
\* the six path and name roles of a sequence row, written one after the
\* other; "sort_size" is one turn of the loop that adds up the entries'
\* sizes, one turn for each entry.
InfoWrites(i) ==
    IF TypeRole(i) = "sequence"
    THEN <<"description", "todo_count", "flags", "paths", "sort_size",
           "sort_size", "sort_mtime", "details">>
    ELSE <<"description", "todo_count", "flags", "sort_mtime", "sort_size",
           "details">>

\* Writes not preceded by `if not is_valid(): return False`.
Unchecked(i, k) ==
    /\ TypeRole(i) = "file"
    /\ InfoWrites(i)[k] \in {"sort_mtime", "sort_size"}

\* The fields of InfoWrites(i), as a set.
InfoFields(i) == {InfoWrites(i)[k] : k \in 1..Len(InfoWrites(i))}

\* Directory listing walked by TaskFolderWorker: TRUE marks a hidden entry.
DirListing == <<TRUE, FALSE>>

\* The row record __initdata__ creates.
NewRow == [info_loaded |-> FALSE, thumb_loaded |-> FALSE, archived |-> FALSE,
           written |-> {}, todo_count |-> 0, sort_size |-> 0,
           sort_mtime |-> 0]

\* ref(): a weak reference resolves while its row is in the tier data map.
Live(r) == r.live

----------------------------------------------------------------------------
(* collections.deque([], maxlen) with each entry's admission rank           *)
(* (1 = oldest pending) kept beside it as history.                          *)

Rerank(s, k) ==
    [i \in 1..Len(s) |->
        IF s[i].rank > k THEN [s[i] EXCEPT !.rank = @ - 1] ELSE s[i]]

Front(s) == SubSeq(s, 1, Len(s) - 1)

Entry(r, k) == [id |-> r.id, live |-> r.live, rank |-> k]

\* deque.append(ref): a full deque discards its leftmost entry.
DequeAppend(q, r) ==
    LET kept == IF Len(q) >= MAXITEMS THEN Rerank(Tail(q), q[1].rank) ELSE q
    IN  Append(kept, Entry(r, Len(kept) + 1))

\* deque.appendleft(ref): a full deque discards its rightmost entry.
DequeAppendLeft(q, r) ==
    LET kept == IF Len(q) >= MAXITEMS
                THEN Rerank(Front(q), q[Len(q)].rank) ELSE q
    IN  <<Entry(r, Len(kept) + 1)>> \o kept

\* `ref in q`: weak references are equal when both resolve to the same row;
\* a dead reference is equal to itself only.
InQueue(q, r) == \E k \in 1..Len(q) : q[k].id = r.id /\ q[k].live = r.live

\* The list views before any tier is shown.
ParkedUi ==
    /\ flags = << >>
    /\ favourites = {}
    /\ filter_mode = [favourite |-> FALSE, archived |-> FALSE]
    /\ ta = [row |-> 0, at |-> "idle"]
    /\ op = "none"

\* No active path saved, nothing on disk, verify_paths not yet run.
ParkedPaths ==
    /\ active = << >>
    /\ fs = [depth |-> 0, stray |-> {}]
    /\ verified = FALSE

\* An empty data directory, LocalSettings not yet constructed.
ParkedMode ==
    /\ locks = {}
    /\ alive = {}
    /\ dropped = {}
    /\ mode = {}

ParkedSettings ==
    /\ store = << >>
    /\ overlay = << >>
    /\ call = << >>

ParkedCall ==
    /\ fn = "none"
    /\ arg = << >>
    /\ res = << >>

\* An empty image cache that no thread uses.
ParkedCache ==
    /\ data = {}
    /\ tpc = << >>
    /\ tloc = << >>
    /\ thumbfile = FALSE
    /\ irow = << >>

\* No blocking-queue worker runs.
ParkedBq ==
    /\ mutex = "unbound"
    /\ bqueue = {}
    /\ indexes_in_progress = {}
    /\ wpc = << >>
    /\ windex = << >>
    /\ shutdown_requested = << >>
    /\ sd = << >>
    /\ finished = << >>

\* No other process has been started.
ParkedStart == pmodes = << >>

\* No notes editor is open.
ParkedEditor ==
    /\ elock = << >>
    /\ est = << >>
    /\ ero = << >>
    /\ estamp = << >>
    /\ eseen = << >>

ParkedLater == ParkedCache /\ ParkedBq /\ ParkedStart /\ ParkedEditor

\* BaseWorker.__init__ and the empty QUEUES.
InitWorker ==
    /\ loaded = FALSE
    /\ rows = << >>
    /\ queue = << >>
    /\ interrupt = FALSE
    /\ rq = "idle"
    /\ wkind \in WorkerKinds
    /\ pc = "idle"
    /\ cur = NoRef
    /\ st = 0
    /\ count = 0
    /\ result = "none"
    /\ exc = "none"
    /\ n = 0
    /\ cancelled = FALSE
    /\ stale = FALSE
    /\ tout = "none"

Init ==
    /\ InitWorker /\ ParkedUi /\ ParkedPaths /\ ParkedMode
    /\ ParkedSettings /\ ParkedCall /\ ParkedLater

----------------------------------------------------------------------------
(* The UI thread.                                                           *)

\* TierReset as it would be if the queue held the rows themselves (or row
\* indexes) and not weak references: pending work survives the reset.
TierResetKeepsRefs ==
    /\ loaded' = TRUE
    /\ rows' = [i \in 1..Len(Scan) |-> NewRow]
    /\ stale' = (cur # NoRef)
    /\ UNCHANGED <<queue, cur, interrupt, rq, wkind, pc, st, count, result,
                   exc, n, cancelled, tout>>
    /\ UNCHANGED outsideWorker

\* AssetModel.__initdata__: the tier data map is replaced by a fresh one and
\* filled by the scan.  The old row records are freed with the old map, so
\* every weak reference to one of them stops resolving.
TierReset ==
    /\ loaded' = TRUE
    /\ rows' = [i \in 1..Len(Scan) |-> NewRow]
    /\ queue' = [k \in 1..Len(queue) |-> Entry(DeadRef, queue[k].rank)]
    /\ cur' = [cur EXCEPT !.live = FALSE]
    /\ stale' = (cur # NoRef)
    /\ UNCHANGED <<interrupt, rq, wkind, pc, st, count, result, exc, n,
                   cancelled, tout>>
    /\ UNCHANGED outsideWorker

\* BaseThread.add_to_queue(ref).
AddToQueue(r) ==
    /\ queue' = IF ~InQueue(queue, r) /\ Live(r)
                THEN DequeAppend(queue, r) ELSE queue
    /\ UNCHANGED <<loaded, rows, interrupt, rq, wkind, pc, cur, st, count,
                   result, exc, n, cancelled, stale, tout>>
    /\ UNCHANGED outsideWorker

\* The rows of the model from index i on, pushed by add_model_to_queue.
RECURSIVE QueueRows(_, _)
QueueRows(q, i) ==
    IF i > Len(rows) THEN q
    ELSE IF rows[i].info_loaded THEN QueueRows(q, i + 1)
    ELSE QueueRows(DequeAppendLeft(q, [id |-> i, live |-> TRUE]), i + 1)

\* BaseWorker.add_model_to_queue(repr_name).
AddModelToQueue ==
    /\ loaded
    /\ queue' = IF interrupt THEN queue ELSE QueueRows(queue, 1)
    /\ UNCHANGED <<loaded, rows, interrupt, rq, wkind, pc, cur, st, count,
                   result, exc, n, cancelled, stale, tout>>
    /\ UNCHANGED outsideWorker

\* BaseWorker.reset_queue(), first statement: self.interrupt = True.
ResetQueueRaise ==
    /\ rq = "idle"
    /\ interrupt' = TRUE
    /\ rq' = "raised"
    /\ UNCHANGED <<loaded, rows, queue, wkind, pc, cur, st, count, result, exc,
                   n, cancelled, stale, tout>>
    /\ UNCHANGED outsideWorker

\* second statement: QUEUES[self.queue_type].clear().
ResetQueueClear ==
    /\ rq = "raised"
    /\ queue' = << >>
    /\ rq' = "cleared"
    /\ UNCHANGED <<loaded, rows, interrupt, wkind, pc, cur, st, count, result,
                   exc, n, cancelled, stale, tout>>
    /\ UNCHANGED outsideWorker

\* ResetQueueLower without its assignment: the flag stays raised.
ResetQueueLowerForgets ==
    /\ rq = "cleared"
    /\ rq' = "idle"
    /\ UNCHANGED <<loaded, rows, queue, interrupt, wkind, pc, cur, st, count,
                   result, exc, n, cancelled, stale, tout>>
    /\ UNCHANGED outsideWorker

\* third statement: self.interrupt = False.
ResetQueueLower ==
    /\ rq = "cleared"
    /\ interrupt' = FALSE
    /\ rq' = "idle"
    /\ UNCHANGED <<loaded, rows, queue, wkind, pc, cur, st, count, result, exc,
                   n, cancelled, stale, tout>>
    /\ UNCHANGED outsideWorker

----------------------------------------------------------------------------
(* The worker thread: check_queue and the `process` wrapper.                *)

\* except IndexError: pass / except (ValueError, RuntimeError, TypeError).
Caught(e) == e \in {"IndexError", "ValueError", "RuntimeError", "TypeError"}

\* An exception of class e reaches the wrapper's handlers; what they do not
\* name goes on to the caller once the finally clause has run.
Raise(e) ==
    /\ pc' = "finally"
    /\ exc' = IF Caught(e) THEN "none" ELSE e

\* check_queue(), up to the loop: the timer fires and the queue is not empty.
CheckQueue ==
    /\ pc = "idle"
    /\ Len(queue) > 0
    /\ pc' = "loop"
    /\ n' = 0
    /\ UNCHANGED <<loaded, rows, queue, interrupt, rq, wkind, cur, st, count,
                   result, exc, cancelled, stale, tout>>
    /\ UNCHANGED outsideWorker

\* check_queue(): the loop test and its two breaks.
CheckQueueLoop ==
    /\ pc = "loop"
    /\ IF Len(queue) = 0 \/ n >= MAXITEMS \/ interrupt
       THEN pc' = "idle" /\ n' = 0
       ELSE pc' = "enter" /\ n' = n
    /\ UNCHANGED <<loaded, rows, queue, interrupt, rq, wkind, cur, st, count,
                   result, exc, cancelled, stale, tout>>
    /\ UNCHANGED outsideWorker

\* func_wrapper: `if self.interrupt: return`.
Enter ==
    /\ pc = "enter"
    /\ pc' = IF interrupt THEN "finally" ELSE "pop"
    /\ UNCHANGED <<loaded, rows, queue, interrupt, rq, wkind, cur, st, count,
                   result, exc, n, cancelled, stale, tout>>
    /\ UNCHANGED outsideWorker

\* func_wrapper: `ref = QUEUES[self.queue_type].pop()`.
Pop ==
    /\ pc = "pop"
    /\ IF Len(queue) = 0
       THEN /\ Raise("IndexError")
            /\ UNCHANGED <<queue, cur, stale>>
       ELSE /\ cur' = [id |-> queue[Len(queue)].id,
                       live |-> queue[Len(queue)].live]
            /\ queue' = Rerank(Front(queue), queue[Len(queue)].rank)
            /\ stale' = FALSE
            /\ pc' = "deref"
            /\ UNCHANGED exc
    /\ UNCHANGED <<loaded, rows, interrupt, rq, wkind, st, count, result, n,
                   cancelled, tout>>
    /\ UNCHANGED outsideWorker

\* func_wrapper: `if not ref() or self.interrupt: return`, else call func.
Deref ==
    /\ pc = "deref"
    /\ pc' = IF ~Live(cur) \/ interrupt THEN "finally" ELSE "body"
    /\ UNCHANGED <<loaded, rows, queue, interrupt, rq, wkind, cur, st, count,
                   result, exc, n, cancelled, stale, tout>>
    /\ UNCHANGED outsideWorker

\* func_wrapper: `result = func(self, ref)` hands back v; a value that is no
\* bool raises TypeError.
Returned(v) ==
    /\ result' = v
    /\ IF v = "None" THEN Raise("TypeError") ELSE pc' = "guard" /\ exc' = exc

\* Guard without `or not result`.
GuardIgnoresResult ==
    /\ pc = "guard"
    /\ pc' = IF ~Live(cur) \/ interrupt THEN "finally" ELSE "emit"
    /\ UNCHANGED <<loaded, rows, queue, interrupt, rq, wkind, cur, st, count,
                   result, exc, n, cancelled, stale, tout>>
    /\ UNCHANGED outsideWorker

\* func_wrapper: `if not ref() or self.interrupt or not result: return`.
Guard ==
    /\ pc = "guard"
    /\ pc' = IF ~Live(cur) \/ interrupt \/ result # "True"
             THEN "finally" ELSE "emit"
    /\ UNCHANGED <<loaded, rows, queue, interrupt, rq, wkind, cur, st, count,
                   result, exc, n, cancelled, stale, tout>>
    /\ UNCHANGED outsideWorker

\* func_wrapper: `self.dataReady.emit(ref()[common.IdRole])`; subscripting
\* the None a dead reference returns raises TypeError.
Emit ==
    /\ pc = "emit"
    /\ IF Live(cur)
       THEN pc' = "emitted" /\ UNCHANGED exc
       ELSE Raise("TypeError")
    /\ UNCHANGED <<loaded, rows, queue, interrupt, rq, wkind, cur, st, count,
                   result, n, cancelled, stale, tout>>
    /\ UNCHANGED outsideWorker

\* func_wrapper: `finally: self.interrupt = False`, then back in check_queue
\* (`n += 1`) unless an exception is on its way out.
Finally ==
    /\ pc \in {"finally", "emitted"}
    /\ interrupt' = FALSE
    /\ cur' = NoRef
    /\ result' = "none"
    /\ st' = 0
    /\ count' = 0
    /\ cancelled' = FALSE
    /\ IF exc = "none"
       THEN pc' = "loop" /\ n' = n + 1
       ELSE pc' = "uncaught" /\ n' = n
    /\ stale' = FALSE
    /\ tout' = "none"
    /\ UNCHANGED <<loaded, rows, queue, rq, wkind, exc>>
    /\ UNCHANGED outsideWorker

\* The exception leaves process_data and check_queue: the tick is over.
Uncaught ==
    /\ pc = "uncaught"
    /\ pc' = "idle"
    /\ exc' = "none"
    /\ n' = 0
    /\ UNCHANGED <<loaded, rows, queue, interrupt, rq, wkind, cur, st, count,
                   result, cancelled, stale, tout>>
    /\ UNCHANGED outsideWorker

----------------------------------------------------------------------------
(* InfoWorker.process_data.                                                 *)

\* is_valid() without the test of FileInfoLoaded.
IsValidInfoIgnoresLatch == Live(cur) /\ ~interrupt

\* is_valid(), threads.py:376.
IsValidInfo == Live(cur) /\ ~interrupt /\ ~rows[cur.id].info_loaded

\* The body returns `v` from inside the try block: the finally clause is next.
InfoReturn(v) ==
    /\ result' = v
    /\ pc' = "ifinally"
    /\ cancelled' = (cancelled \/ (v = "False" /\ Live(cur) /\ interrupt))

\* `if not is_valid(): return False` ahead of the try block.
InfoBegin ==
    /\ pc = "body" /\ wkind = "info"
    /\ IF IsValidInfo
       THEN pc' = "try" /\ st' = 1 /\ UNCHANGED <<result, exc>>
       ELSE Returned("False") /\ UNCHANGED st
    /\ UNCHANGED <<loaded, rows, queue, interrupt, rq, wkind, cur, count, n,
                   cancelled, stale, tout>>
    /\ UNCHANGED outsideWorker

\* The flags the database holds for row i carry MarkedAsArchived.
DbArchived(i) == i = 2

\* The entry the turn of the loop at write k works on: the turns before it
\* have taken the entries before it.
EntryAt(i, k) ==
    Entries[1 + Cardinality({j \in 1..(k - 1) :
                                InfoWrites(i)[j] = "sort_size"})]

\* The local mtime after the loop, threads.py:491-494: it starts at 0 and
\* takes every st_mtime that is greater.
RECURSIVE LoopMtime(_, _)
LoopMtime(k, mtime) ==
    IF k > Len(Entries) THEN mtime
    ELSE LoopMtime(k + 1, IF Entries[k].st_mtime > mtime
                          THEN Entries[k].st_mtime ELSE mtime)

\* SortBySizeRole of row i after write k: `+=` on a sequence row
\* (threads.py:496), `=` on a file row (threads.py:527).
SizeWritten(i, k) ==
    IF InfoWrites(i)[k] # "sort_size" THEN rows[i].sort_size
    ELSE IF TypeRole(i) = "sequence"
    THEN rows[i].sort_size + EntryAt(i, k).st_size
    ELSE Entries[1].st_size

\* SortByLastModifiedRole of row i after write k (threads.py:499, 525).
MtimeWritten(i, k) ==
    IF InfoWrites(i)[k] # "sort_mtime" THEN rows[i].sort_mtime
    ELSE IF TypeRole(i) = "sequence" THEN LoopMtime(1, 0)
    ELSE Entries[1].st_mtime

\* InfoWritten with the assignment of FileDetailsRole left out.
InfoWrittenDropsDetails(i, k) ==
    [rows[i] EXCEPT
        !.written = IF InfoWrites(i)[k] = "details"
                    THEN @ ELSE @ \cup {InfoWrites(i)[k]},
        !.archived = IF InfoWrites(i)[k] = "flags"
                     THEN @ \/ DbArchived(i) ELSE @,
        !.sort_size = SizeWritten(i, k),
        !.sort_mtime = MtimeWritten(i, k)]

\* The row after write k of the body.
InfoWritten(i, k) ==
    [rows[i] EXCEPT
        !.written = @ \cup {InfoWrites(i)[k]},
        !.archived = IF InfoWrites(i)[k] = "flags"
                     THEN @ \/ DbArchived(i) ELSE @,
        !.sort_size = SizeWritten(i, k),
        !.sort_mtime = MtimeWritten(i, k)]

\* One guarded write of the body: `if not is_valid(): return False`, then
\* `ref()[role] = value`.  Writing through a dead reference raises
\* TypeError, which the bare except swallows.
InfoStep ==
    /\ pc = "try" /\ wkind = "info"
    /\ st <= Len(InfoWrites(cur.id))
    /\ IF ~Unchecked(cur.id, st) /\ ~IsValidInfo
       THEN InfoReturn("False") /\ UNCHANGED <<rows, st>>
       ELSE IF ~Live(cur)
       THEN InfoReturn("None") /\ UNCHANGED <<rows, st>>
       ELSE /\ rows' = [rows EXCEPT ![cur.id] = InfoWritten(cur.id, st)]
            /\ st' = st + 1
            /\ UNCHANGED <<pc, result, cancelled>>
    /\ UNCHANGED <<loaded, queue, interrupt, rq, wkind, cur, count, exc, n,
                   stale, tout>>
    /\ UNCHANGED outsideWorker

\* A database read, the notes blob or entry.stat() raises: `except:` logs
\* and the function ends without a return value.
InfoFail ==
    /\ pc = "try" /\ wkind = "info"
    /\ st <= Len(InfoWrites(cur.id))
    /\ InfoReturn("None")
    /\ UNCHANGED <<loaded, rows, queue, interrupt, rq, wkind, cur, st, count,
                   exc, n, stale, tout>>
    /\ UNCHANGED outsideWorker

\* threads.py:542-544: the last is_valid() and `return True`.
InfoEnd ==
    /\ pc = "try" /\ wkind = "info"
    /\ st > Len(InfoWrites(cur.id))
    /\ InfoReturn(IF IsValidInfo THEN "True" ELSE "False")
    /\ UNCHANGED <<loaded, rows, queue, interrupt, rq, wkind, cur, st, count,
                   exc, n, stale, tout>>
    /\ UNCHANGED outsideWorker

\* threads.py:547-549: `finally: if ref(): ref()[FileInfoLoaded] = True`.
InfoFinally ==
    /\ pc = "ifinally"
    /\ rows' = IF Live(cur)
               THEN [rows EXCEPT ![cur.id].info_loaded = TRUE] ELSE rows
    /\ Returned(result)
    /\ UNCHANGED <<loaded, queue, interrupt, rq, wkind, cur, st, count, n,
                   cancelled, stale, tout>>
    /\ UNCHANGED outsideWorker

----------------------------------------------------------------------------
(* ThumbnailWorker.process_data.                                            *)

\* is_valid(), threads.py:576.
IsValidThumb ==
    /\ Live(cur) /\ ~interrupt
    /\ ~rows[cur.id].thumb_loaded /\ ~rows[cur.id].archived

\* What the try block can meet, and the value it returns for each.
ThumbOutcomes == {"cached", "nobuf", "toolarge", "made", "placeholder",
                  "nothing", "exception"}

ThumbResult(o) == IF o \in {"toolarge", "nothing"} THEN "False" ELSE "True"

\* What the try block leaves at the row's destination path: the thumbnail
\* of the source when the first oiio_make_thumbnail succeeds, the bundled
\* 'failed' image when only the second does, otherwise nothing new.
OnDisk(o) ==
    CASE o = "made" -> "thumbnail"
      [] o = "placeholder" -> "failed"
      [] OTHER -> "untouched"

\* threads.py:577-603, ahead of the try block: the is_valid() tests, and the
\* calls into images that resolve and load the thumbnail.
ThumbBegin ==
    /\ pc = "body" /\ wkind = "thumb"
    /\ \/ /\ ~IsValidThumb
          /\ Returned("False")
       \/ /\ IsValidThumb
          /\ pc' = "try"
          /\ UNCHANGED <<result, exc>>
       \/ /\ IsValidThumb
          /\ \E e \in ExcTypes : Raise(e)
          /\ UNCHANGED result
    /\ UNCHANGED <<loaded, rows, queue, interrupt, rq, wkind, cur, st, count, n,
                   cancelled, stale, tout>>
    /\ UNCHANGED outsideWorker

\* threads.py:605-638: the try block; it never looks at interrupt.
ThumbTry ==
    /\ pc = "try" /\ wkind = "thumb"
    /\ \E o \in ThumbOutcomes : tout' = o /\ result' = ThumbResult(o)
    /\ pc' = "tfinally"
    /\ UNCHANGED <<loaded, rows, queue, interrupt, rq, wkind, cur, st, count,
                   exc, n, cancelled, stale>>
    /\ UNCHANGED outsideWorker

\* threads.py:639-641: `finally: if ref(): ref()[ThumbnailLoaded] = True`.
ThumbFinally ==
    /\ pc = "tfinally"
    /\ rows' = IF Live(cur)
               THEN [rows EXCEPT ![cur.id].thumb_loaded = TRUE] ELSE rows
    /\ Returned(result)
    /\ UNCHANGED <<loaded, queue, interrupt, rq, wkind, cur, st, count, n,
                   cancelled, stale, tout>>
    /\ UNCHANGED outsideWorker

----------------------------------------------------------------------------
(* TaskFolderWorker.process_data: no try block of its own.                  *)

\* is_valid(), threads.py:651-652.
IsValidTask == Live(cur) /\ ~interrupt

\* The loop stops counting once count exceeds this.
CountCap == 999

TaskBegin ==
    /\ pc = "body" /\ wkind = "task"
    /\ IF IsValidTask
       THEN pc' = "walk" /\ st' = 1 /\ count' = 0 /\ UNCHANGED <<result, exc>>
       ELSE Returned("False") /\ UNCHANGED <<st, count>>
    /\ UNCHANGED <<loaded, rows, queue, interrupt, rq, wkind, cur, n, cancelled,
                   stale, tout>>
    /\ UNCHANGED outsideWorker

\* One turn of `for entry in common.walk(...)`.
TaskWalk ==
    /\ pc = "walk"
    /\ st <= Len(DirListing)
    /\ \/ /\ ~IsValidTask
          /\ Returned("False")
          /\ cancelled' = (Live(cur) /\ interrupt)
          /\ UNCHANGED <<st, count>>
       \/ /\ IsValidTask
          /\ IF DirListing[st]
             THEN st' = st + 1 /\ UNCHANGED count
             ELSE /\ count' = count + 1
                  /\ st' = IF count + 1 > CountCap
                           THEN Len(DirListing) + 1 ELSE st + 1
          /\ UNCHANGED <<pc, result, cancelled, exc>>
       \/ /\ \E e \in ExcTypes : Raise(e)
          /\ UNCHANGED <<st, count, result, cancelled>>
    /\ UNCHANGED <<loaded, rows, queue, interrupt, rq, wkind, cur, n, stale,
                   tout>>
    /\ UNCHANGED outsideWorker

\* threads.py:666-669: the last is_valid(), the write and `return True`.
TaskWrite ==
    /\ pc = "walk"
    /\ st > Len(DirListing)
    /\ IF IsValidTask
       THEN /\ rows' = [rows EXCEPT ![cur.id].todo_count = count,
                                    ![cur.id].written = @ \cup {"todo_count"}]
            /\ Returned("True")
            /\ UNCHANGED cancelled
       ELSE /\ Returned("False")
            /\ cancelled' = (Live(cur) /\ interrupt)
            /\ UNCHANGED rows
    /\ UNCHANGED <<loaded, queue, interrupt, rq, wkind, cur, st, count, n,
                   stale, tout>>
    /\ UNCHANGED outsideWorker

----------------------------------------------------------------------------

\* A weak reference the UI thread can hold: to a row of the current map, or
\* one kept from before the last reset.
Refs == {[id |-> i, live |-> TRUE] : i \in 1..Len(rows)} \cup {DeadRef}

Next ==
    \/ TierReset
    \/ \E r \in Refs : AddToQueue(r)
    \/ AddModelToQueue
    \/ ResetQueueRaise
    \/ ResetQueueClear
    \/ ResetQueueLower
    \/ CheckQueue
    \/ CheckQueueLoop
    \/ Enter
    \/ Pop
    \/ Deref
    \/ InfoBegin
    \/ InfoStep
    \/ InfoFail
    \/ InfoEnd
    \/ InfoFinally
    \/ ThumbBegin
    \/ ThumbTry
    \/ ThumbFinally
    \/ TaskBegin
    \/ TaskWalk
    \/ TaskWrite
    \/ Guard
    \/ Emit
    \/ Finally
    \/ Uncaught

Spec == Init /\ [][Next]_vars

----------------------------------------------------------------------------
(* Properties.                                                              *)

\* The worker takes a step (every statement of the worker moves pc or st;
\* no step of another thread does).
WorkerStep == pc' # pc \/ st' # st

\* The worker writes a field of row i in this step.
Writes(i) ==
    /\ WorkerStep
    /\ i \in DOMAIN rows /\ i \in DOMAIN rows'
    /\ rows'[i].written # rows[i].written

\* The worker sets a latch of row i in this step.
Latches(i) ==
    /\ WorkerStep
    /\ i \in DOMAIN rows /\ i \in DOMAIN rows'
    /\ \/ ~rows[i].info_loaded /\ rows'[i].info_loaded
       \/ ~rows[i].thumb_loaded /\ rows'[i].thumb_loaded

\* dataReady is emitted in this step.
Emits == pc = "emit" /\ pc' = "emitted"

\* The latch the worker of this kind sets on row i (TaskFolderWorker has
\* none).
Latch(i) ==
    CASE wkind = "info" -> rows[i].info_loaded
      [] wkind = "thumb" -> rows[i].thumb_loaded
      [] OTHER -> FALSE

\* C1: for every row a worker processes, every field write happens before
\* the worker's latch is set on the row, the latch is set before dataReady is
\* emitted for the row, and at the emission no write of the pass is still to
\* come: an InfoWorker has written every field of the row, a
\* TaskFolderWorker its count.
C1_WritesLatchReady ==
    [][/\ \A i \in DOMAIN rows :
            Writes(i) => /\ i = cur.id
                         /\ ~Latch(i)
                         /\ pc \notin {"guard", "emit", "emitted", "finally"}
       /\ Emits =>
            /\ result = "True"
            /\ wkind \in {"info", "thumb"} => Latch(cur.id)
            /\ wkind = "info" => rows[cur.id].written = InfoFields(cur.id)
            /\ wkind = "task" => "todo_count" \in rows[cur.id].written
      ]_vars

\* C1 witness: an InfoWorker has emitted dataReady for a row it latched.
C1_Witness ==
    /\ pc = "emitted" /\ wkind = "info"
    /\ rows[cur.id].info_loaded
    /\ rows[cur.id].written = InfoFields(cur.id)

C5_FailureLatchesNoRetry ==
    [][/\ (pc = "ifinally" /\ WorkerStep /\ result = "None" /\ Live(cur))
            => rows'[cur.id].info_loaded
       /\ (wkind = "info" /\ pc = "body" /\ pc' = "try")
            => ~rows[cur.id].info_loaded
       /\ \A i \in DOMAIN rows :
            (wkind = "info" /\ Writes(i)) => ~rows[i].info_loaded
      ]_vars

\* C5 witness: the body failed part-way (the wrapper is handling the missing
\* return value) and the row is latched with some fields unwritten.
C5_Witness ==
    /\ wkind = "info" /\ pc = "finally" /\ result = "None" /\ Live(cur)
    /\ rows[cur.id].info_loaded
    /\ rows[cur.id].written # InfoFields(cur.id)

C7_OverflowDropsOldest ==
    Len(queue) = MAXITEMS =>
        \A i \in DOMAIN rows :
            LET r == [id |-> i, live |-> TRUE]
                viaThread == DequeAppend(queue, r)
                viaModel == DequeAppendLeft(queue, r)
            IN  /\ ~InQueue(queue, r) =>
                    /\ queue[1].rank = 1
                    /\ Len(viaThread) = MAXITEMS /\ InQueue(viaThread, r)
                /\ ~rows[i].info_loaded =>
                    /\ queue[Len(queue)].rank = 1
                    /\ Len(viaModel) = MAXITEMS /\ InQueue(viaModel, r)

\* C8: no two entries of the queue refer to the same live row.
C8_NoDuplicateRefs ==
    \A j, k \in 1..Len(queue) :
        (j # k /\ queue[j].live /\ queue[k].live) => queue[j].id # queue[k].id

C10_NoExceptionEscapes == pc # "uncaught"

\* The write of InfoWrites(i) whose value comes from the first entry.stat()
\* of the body (threads.py:492 for a sequence, 522 for a file): the call
\* that raises when the entity behind the row is gone.
StatStep(i) == IF TypeRole(i) = "sequence" THEN "sort_size" ELSE "sort_mtime"

\* The fields computed from entry.stat().
StatFields == {"sort_size", "sort_mtime", "details"}

\* The InfoWorker body failed at entry.stat() on a row that still resolves.
NotFound ==
    /\ wkind = "info" /\ result = "None" /\ Live(cur)
    /\ st \in 1..Len(InfoWrites(cur.id))
    /\ InfoWrites(cur.id)[st] = StatStep(cur.id)

\* C11: when entry.stat() fails because the entity behind the row is gone
\* and nothing cancels the pass, the call of process_data ends with
\* info_loaded set on the row, dataReady emitted for it, and the fields
\* that come from the filesystem left unwritten.
C11_NotFoundLatchesAndEmits ==
    [][(NotFound /\ ~interrupt /\ pc \in {"finally", "emitted"} /\ WorkerStep)
          => /\ pc = "emitted"
             /\ rows[cur.id].info_loaded
             /\ rows[cur.id].written \cap StatFields = {}
      ]_vars

\* Neither the thumbnail nor the 'failed' image could be written to the
\* destination (threads.py:618-635).
WriteDenied == tout = "nothing"

\* The image backend refused the source: oiio_get_buf gave no buffer
\* (threads.py:611-613) or the first oiio_make_thumbnail failed and the
\* second wrote the 'failed' image (618-634).
DecodeFailed == tout \in {"nobuf", "placeholder"}

\* The ThumbnailWorker body has left its finally clause for a row that
\* still resolves.
ThumbDone ==
    /\ wkind = "thumb" /\ tout # "none" /\ Live(cur)
    /\ pc \in {"guard", "emit", "emitted", "finally"}

\* C12: a pass that could not write to the thumbnail directory leaves the
\* row's thumbnail_loaded latch unset.
C12_WriteDeniedLeavesLatchUnset ==
    (ThumbDone /\ WriteDenied) => ~rows[cur.id].thumb_loaded

\* C13: after a pass in which the decoder refused the source,
\* thumbnail_loaded is set and the file at the destination is the 'failed'
\* image; thumbnail_loaded is set after every pass, whatever its outcome.
C13_DecodeFailedLeavesPlaceholder ==
    ThumbDone =>
        /\ rows[cur.id].thumb_loaded
        /\ DecodeFailed => OnDisk(tout) = "failed"

\* The tier data map is replaced in this step: every row is a fresh record
\* and no reference held by the queue or the worker resolves any more.
ResetStep ==
    /\ ~WorkerStep
    /\ rows' = [i \in 1..Len(Scan) |-> NewRow]
    /\ ~Live(cur')
    /\ \A k \in 1..Len(queue') : ~queue'[k].live

\* C14: a latch that is set is lowered by no step other than a tier reset.
C14_LatchMonotonic ==
    [][\A i \in DOMAIN rows :
          (\/ rows[i].info_loaded /\ ~rows'[i].info_loaded
           \/ rows[i].thumb_loaded /\ ~rows'[i].thumb_loaded) => ResetStep
      ]_vars

\* C14 witness: the worker has dequeued a reference to a row whose latch is
\* already set.
C14_Witness ==
    /\ pc = "body" /\ Live(cur)
    /\ rows[cur.id].info_loaded \/ rows[cur.id].thumb_loaded

----------------------------------------------------------------------------
(* The list views: favourite, archived and active bits of the rows of one   *)
(* tier, the saved favourites, and the proxy model's two filters.  All of   *)
(* it runs on the UI thread; setData() emits dataChanged after every write, *)
(* so the state between two setData() calls of one handler is seen by the   *)
(* slots connected to it.                                                   *)

\* The folders the scan of the tier finds.
Names == <<"Shot", "shot", "env">>

\* unicode.lower().
Lower(x) == IF x = "Shot" THEN "shot" ELSE x

LowerAll(S) == {Lower(x) : x \in S}

UiRows == 1..Len(Names)

\* QFileInfo(index.data(StatusTipRole)).filePath(): the rows share their
\* parent folder, so the name stands for the path.
PathOf(r) == Names[r]

NoFlags == [favourite |-> FALSE, archived |-> FALSE, active |-> FALSE]

States == {"None", "True", "False"}

\* FilterProxyModel.filterAcceptsRow.
Visible(r) ==
    /\ ~(flags[r].archived /\ ~filter_mode.archived)
    /\ ~(~flags[r].favourite /\ filter_mode.favourite)

ActiveRows(f) == {r \in DOMAIN f : f[r].active}

UiIdle == ta.at = "idle" /\ flags # << >>

\* AssetModel.__initdata__, the flags of the rows it creates: favourite when
\* the path is among the saved favourites, active when the name is the saved
\* activepath/asset (both compared in lower case).  a is that setting, ""
\* when it is unset.
UiLoad(a) ==
    /\ ta.at = "idle"
    /\ flags' = [r \in UiRows |->
                   [favourite |-> Lower(PathOf(r)) \in LowerAll(favourites),
                    archived |-> FALSE,
                    active |-> a # "" /\ Lower(a) = Lower(Names[r])]]
    /\ op' = "load"
    /\ UNCHANGED <<favourites, filter_mode, ta>>
    /\ UNCHANGED outsideUi

\* FilterProxyModel.set_filtermode(mode, val): self.filter_mode[mode] = val
\* adds the key when the dictionary has none of that name.
SetFilterMode(k, v) ==
    /\ UiIdle
    /\ filter_mode' = [x \in DOMAIN filter_mode \cup {k} |->
                          IF x = k THEN v ELSE filter_mode[x]]
    /\ op' = "filter"
    /\ UNCHANGED <<flags, favourites, ta>>
    /\ UNCHANGED outsideUi

\* BaseListWidget.toggle_favourite(index, state).
ToggleFavourite(r, state) ==
    /\ UiIdle
    /\ op' = "toggle_favourite"
    /\ IF flags[r].archived
       THEN UNCHANGED <<flags, favourites>>
       ELSE IF PathOf(r) \in favourites
       THEN IF state \in {"None", "False"}
            THEN /\ flags' = [flags EXCEPT ![r].favourite = FALSE]
                 /\ favourites' = favourites \ {PathOf(r)}
            ELSE UNCHANGED <<flags, favourites>>
       ELSE IF state \in {"None", "True"}
            THEN /\ flags' = [flags EXCEPT ![r].favourite = TRUE]
                 /\ favourites' = favourites \cup {PathOf(r)}
            ELSE UNCHANGED <<flags, favourites>>
    /\ UNCHANGED <<filter_mode, ta>>
    /\ UNCHANGED outsideUi

\* BaseListWidget.toggle_archived(index, state), up to and including its
\* first setData().
ToggleArchived(r, state) ==
    /\ UiIdle
    /\ op' = "toggle_archived"
    /\ IF flags[r].archived
       THEN /\ flags' = [flags EXCEPT
                           ![r].archived = IF state \in {"None", "False"}
                                           THEN FALSE ELSE @]
            /\ UNCHANGED ta
       ELSE IF state \in {"None", "True"}
            THEN /\ flags' = [flags EXCEPT ![r].archived = TRUE]
                 /\ ta' = IF PathOf(r) \in favourites
                          THEN [row |-> r, at |-> "clear"] ELSE ta
            ELSE UNCHANGED <<flags, ta>>
    /\ UNCHANGED <<favourites, filter_mode>>
    /\ UNCHANGED outsideUi

\* toggle_archived: the second setData(), which clears MarkedAsFavourite.
ToggleArchivedClear ==
    /\ ta.at = "clear"
    /\ flags' = [flags EXCEPT ![ta.row].favourite = FALSE]
    /\ ta' = [ta EXCEPT !.at = "save"]
    /\ UNCHANGED <<favourites, filter_mode, op>>
    /\ UNCHANGED outsideUi

\* toggle_archived: favourites.remove(path) and local_settings.setValue().
ToggleArchivedSave ==
    /\ ta.at = "save"
    /\ favourites' = favourites \ {PathOf(ta.row)}
    /\ ta' = [row |-> 0, at |-> "idle"]
    /\ UNCHANGED <<flags, filter_mode, op>>
    /\ UNCHANGED outsideUi

\* BaseContextMenu.archived() of listbase.py: the archived state is flipped
\* and the item's flags are rebuilt from it; is_favourite() looks the item up
\* in the saved favourites.
ContextMenuArchived(r) ==
    /\ UiIdle
    /\ op' = "archived"
    /\ flags' = [flags EXCEPT ![r] =
                   IF ~flags[r].archived
                   THEN [NoFlags EXCEPT !.archived = TRUE]
                   ELSE [NoFlags EXCEPT
                           !.favourite = Names[r] \in favourites]]
    /\ UNCHANGED <<favourites, filter_mode, ta>>
    /\ UNCHANGED outsideUi

\* common.import_favourites(source): S are the lines of the imported list.
ImportFavourites(S) ==
    /\ UiIdle
    /\ op' = "import"
    /\ favourites' = LowerAll(favourites) \cup LowerAll(S)
    /\ UNCHANGED <<flags, filter_mode, ta>>
    /\ UNCHANGED outsideUi

\* BaseListWidget.activate_current_index() of baselistwidget.py with row r
\* current.  active_index() walks the rows of the proxy model, so it finds
\* an active row only among the visible ones; `old` is the one it finds, 0
\* when there is none.
ActivateCurrentIndex(r, old) ==
    /\ UiIdle
    /\ Visible(r)
    /\ op' = "activate"
    /\ \/ old = 0 /\ \A x \in ActiveRows(flags) : ~Visible(x)
       \/ old \in ActiveRows(flags) /\ Visible(old)
    /\ IF flags[r].active \/ flags[r].archived
       THEN UNCHANGED flags
       ELSE flags' = [x \in UiRows |->
                        [flags[x] EXCEPT
                           !.active = IF x = r THEN TRUE
                                      ELSE IF x = old THEN FALSE ELSE @]]
    /\ UNCHANGED <<favourites, filter_mode, ta>>
    /\ UNCHANGED outsideUi

\* The first item that carries MarkedAsActive, 0 when there is none
\* (BaseListWidget.active_item of listbase.py).
ActiveItem ==
    IF ActiveRows(flags) = {} THEN 0
    ELSE CHOOSE x \in ActiveRows(flags) : \A y \in ActiveRows(flags) : x <= y

\* BaseListWidget.set_current_item_as_active() of listbase.py.
SetCurrentItemAsActive(r) ==
    /\ UiIdle
    /\ op' = "set_active"
    /\ IF flags[r].archived
       THEN UNCHANGED flags
       ELSE flags' = [x \in UiRows |->
                        [flags[x] EXCEPT
                           !.active = IF x = r THEN TRUE
                                      ELSE IF x = ActiveItem THEN FALSE
                                      ELSE @]]
    /\ UNCHANGED <<favourites, filter_mode, ta>>
    /\ UNCHANGED outsideUi

InitUi ==
    /\ ParkedUi
    /\ InitWorker /\ wkind = "info" /\ ParkedLater
    /\ ParkedPaths
    /\ ParkedMode
    /\ ParkedSettings
    /\ ParkedCall

NextUi ==
    \/ \E a \in {Names[r] : r \in UiRows} \cup {""} : UiLoad(a)
    \/ \E k \in {"favourite", "archived"}, v \in BOOLEAN : SetFilterMode(k, v)
    \/ \E r \in UiRows, state \in States : ToggleFavourite(r, state)
    \/ \E r \in UiRows, state \in States : ToggleArchived(r, state)
    \/ ToggleArchivedClear
    \/ ToggleArchivedSave
    \/ \E r \in UiRows : ContextMenuArchived(r)
    \/ \E S \in SUBSET {Names[r] : r \in UiRows} : ImportFavourites(S)
    \/ \E r \in UiRows, old \in UiRows \cup {0} : ActivateCurrentIndex(r, old)
    \/ \E r \in UiRows : SetCurrentItemAsActive(r)

SpecUi == InitUi /\ [][NextUi]_vars

\* C15: every archived row has its favourite bit clear and its path is not
\* among the saved favourites.
C15_ArchivedNeverFavourite ==
    \A r \in DOMAIN flags :
        flags[r].archived =>
            (~flags[r].favourite /\ PathOf(r) \notin favourites)

\* C16: at most one row of the tier carries the active bit.
C16_AtMostOneActive == Cardinality(ActiveRows(flags)) <= 1

\* C17: toggle_archived(r, True) on a row that is favourite, not archived
\* and among the saved favourites sets the archived bit, clears the
\* favourite bit and removes the path from the saved favourites in one
\* step: no state shows r archived and still favourite or still saved.
C17_ArchiveClearsFavouriteAtomically ==
    [][\A r \in DOMAIN flags :
          (/\ op' = "toggle_archived" /\ ta.at = "idle"
           /\ flags[r].favourite /\ ~flags[r].archived
           /\ PathOf(r) \in favourites
           /\ flags'[r].archived)
          => (~flags'[r].favourite /\ PathOf(r) \notin favourites')
      ]_vars

\* C18: when row a is the one active row of the tier and another row b is
\* activated, b is the one active row afterwards.
C18_ActivationClearsPrevious ==
    [][\A a, b \in DOMAIN flags :
          (/\ op' = "activate"
           /\ ActiveRows(flags) = {a} /\ b # a
           /\ flags'[b].active)
          => ActiveRows(flags') = {b}
      ]_vars

----------------------------------------------------------------------------
(* LocalSettings.verify_paths: the saved active path against the            *)
(* filesystem.  A path is named by the set of keys whose values were joined *)
(* to make it.                                                              *)

\* settings.ACTIVE_KEYS.
ACTIVE_KEYS == <<"server", "job", "root", "asset", "task_folder", "file">>

Keys == 1..Len(ACTIVE_KEYS)

AssetKey == CHOOSE k \in Keys : ACTIVE_KEYS[k] = "asset"

\* The keys 1..j.
UpTo(j) == {k \in Keys : k <= j}

\* The filesystems looked at: the folders of the saved path exist down to
\* fs.depth, and one more path, made of the values of the keys fs.stray, may
\* exist together with the paths that lead to it.
Filesystems == [depth : {0} \cup Keys, stray : SUBSET Keys]

\* QFileInfo(path).exists() for the path joined from the values of keys P;
\* the empty path does not exist.
Exists(P) ==
    /\ P # {}
    /\ \/ \E j \in Keys : P = UpTo(j) /\ j <= fs.depth
       \/ \E j \in fs.stray : P = fs.stray \cap UpTo(j)

\* The loop of verify_paths from key k on: d holds the values read at the
\* start, P the keys joined into `path` so far.  A value that is set is
\* appended to the path (and stays appended); the key is unset when the path
\* does not exist.
RECURSIVE VerifyFrom(_, _, _)
VerifyFrom(d, k, P) ==
    IF k > Len(ACTIVE_KEYS) THEN d
    ELSE LET path == IF d[k] THEN P \cup {k} ELSE P
         IN  VerifyFrom(IF Exists(path) THEN d ELSE [d EXCEPT ![k] = FALSE],
                        k + 1, path)

\* LocalSettings.verify_paths(), the slot of server_mount_timer.
VerifyPaths ==
    /\ active' = VerifyFrom(active, 1, {})
    /\ verified' = TRUE
    /\ UNCHANGED fs
    /\ UNCHANGED outsidePaths

\* AssetsWidget.save_activated(index): activepath/asset is set to the name
\* of the activated row, then verify_paths() runs.
SaveActivated ==
    /\ active' = VerifyFrom([active EXCEPT ![AssetKey] = TRUE], 1, {})
    /\ verified' = TRUE
    /\ UNCHANGED fs
    /\ UNCHANGED outsidePaths

\* A folder of the saved path goes away (a server is unmounted, a folder is
\* deleted).
FsRemove ==
    /\ \E j \in {0} \cup Keys : j < fs.depth /\ fs' = [fs EXCEPT !.depth = j]
    /\ verified' = FALSE
    /\ UNCHANGED active
    /\ UNCHANGED outsidePaths

\* The saved path names the folders of some existing or former file: the
\* keys set are the first j.
InitPaths ==
    /\ \E j \in {0} \cup Keys : active = [k \in Keys |-> k <= j]
    /\ fs \in Filesystems
    /\ verified = FALSE
    /\ InitWorker /\ wkind = "info" /\ ParkedLater
    /\ ParkedUi
    /\ ParkedMode
    /\ ParkedSettings
    /\ ParkedCall

NextPaths ==
    \/ VerifyPaths
    \/ SaveActivated
    \/ FsRemove

SpecPaths == InitPaths /\ [][NextPaths]_vars

\* C19: after verify_paths has run, the keys that are still set are the
\* first j of the tuple for some j, and the path joined from them exists
\* (j = 0, nothing set, is allowed).
C19_ValidPrefixAfterVerify ==
    verified =>
        \E j \in {0} \cup Keys :
            /\ \A k \in Keys : active[k] <=> k <= j
            /\ j = 0 \/ Exists(UpTo(j))

----------------------------------------------------------------------------
(* The lock files: prune_lockfile, LocalSettings.get_mode and               *)
(* save_mode_lockfile.  A lock file session_<pid>.lock is a record of its   *)
(* pid and its text.                                                        *)

\* common.SynchronisedMode and common.SoloMode.
SynchronisedMode == 0

SoloMode == 1

\* The process that starts, and two others that may have left a lock file.
Pids == {"self", "p", "q"}

\* What a lock file can hold: a mode as save_mode_lockfile writes it, the
\* same with white space around it, nothing (touch_mode_lockfile), or
\* something that is no number.
Contents == {"0", "1", " 0 ", "", "x"}

\* str.strip().
Strip(x) == IF x = " 0 " THEN "0" ELSE x

\* int(text) succeeds.
IsInt(x) == x \in {"0", "1"}

\* int(text).
IntOf(x) == IF x = "0" THEN 0 ELSE 1

\* u'{}'.format(int(mode)).
Format(v) == IF v = 0 THEN "0" ELSE "1"

\* prune_lockfile removing nothing.
PrunedNothing(files) == files

\* prune_lockfile: the lock files whose pid is not in psutil.pids() are
\* removed.
Pruned(files) == {f \in files : f.pid \in alive}

\* get_mode with a mode compared against SoloMode instead.
GetModeCountsSolo(files) ==
    IF \E f \in files :
          IsInt(Strip(f.data)) /\ IntOf(Strip(f.data)) = SoloMode
    THEN SoloMode ELSE SynchronisedMode

\* The loop of get_mode over the lock files left: SoloMode as soon as one of
\* them reads as SynchronisedMode; a file that is no number is skipped.
GetMode(files) ==
    IF \E f \in files :
          IsInt(Strip(f.data)) /\ IntOf(Strip(f.data)) = SynchronisedMode
    THEN SoloMode ELSE SynchronisedMode

\* LocalSettings.__init__: self._current_mode = self.get_mode(), which
\* prune_lockfile wraps.
Startup ==
    /\ mode = {}
    /\ locks' = Pruned(locks)
    /\ dropped' = dropped \cup (locks \ Pruned(locks))
    /\ mode' = {GetMode(Pruned(locks))}
    /\ UNCHANGED alive
    /\ UNCHANGED outsideMode

\* save_mode_lockfile writing nothing, as touch_mode_lockfile does.
WriteLockEmpty(files, v) ==
    {f \in Pruned(files) : f.pid # "self"}
        \cup {[pid |-> "self", data |-> ""]}

\* What save_mode_lockfile leaves in the data directory when the mode is v:
\* the stale lock files are gone and this process's lock file holds v.
WriteLock(files, v) ==
    {f \in Pruned(files) : f.pid # "self"}
        \cup {[pid |-> "self", data |-> Format(v)]}

\* LocalSettings.save_mode_lockfile(), which prune_lockfile wraps: this
\* process's lock file is written anew with the current mode.
SaveModeLockfile ==
    /\ mode # {}
    /\ \E v \in mode : locks' = WriteLock(locks, v)
    /\ dropped' = dropped \cup (locks \ Pruned(locks))
    /\ UNCHANGED <<alive, mode>>
    /\ UNCHANGED outsideMode

\* The user switches the mode: set_mode(v), then save_mode_lockfile().
ToggleMode(v) ==
    /\ mode # {} /\ v \notin mode
    /\ mode' = {v}
    /\ locks' = WriteLock(locks, v)
    /\ dropped' = dropped \cup (locks \ Pruned(locks))
    /\ UNCHANGED alive
    /\ UNCHANGED outsideMode

\* Another process ends and leaves its lock file behind.
PeerExit(p) ==
    /\ p \in alive /\ p # "self"
    /\ alive' = alive \ {p}
    /\ UNCHANGED <<locks, dropped, mode>>
    /\ UNCHANGED outsideMode

\* Any lock files, at most one per pid; this process is running.
InitMode ==
    /\ locks \in SUBSET [pid : Pids, data : Contents]
    /\ \A f, g \in locks : f.pid = g.pid => f = g
    /\ alive \in SUBSET Pids /\ "self" \in alive
    /\ dropped = {}
    /\ mode = {}
    /\ InitWorker /\ wkind = "info" /\ ParkedLater
    /\ ParkedUi
    /\ ParkedPaths
    /\ ParkedSettings
    /\ ParkedCall

NextMode ==
    \/ Startup
    \/ \E v \in {SynchronisedMode, SoloMode} : ToggleMode(v)
    \/ SaveModeLockfile
    \/ \E p \in Pids : PeerExit(p)

SpecMode == InitMode /\ [][NextMode]_vars

C23_DeadLockFilesIgnored ==
    [][(mode = {} /\ mode' # {}) =>
          /\ \A f \in locks : f.pid \notin alive => f \notin locks'
          /\ mode' = {SoloMode} =>
                \E f \in locks : f.pid \in alive /\ f.data \in {"0", " 0 "}
      ]_vars

\* C23 witness: the process started in Synchronised mode although a lock
\* file that recorded Synchronised mode was there: its process was gone and
\* the file was removed.
C23_Witness ==
    /\ mode = {SynchronisedMode}
    /\ \E f \in dropped : f.data = "0" /\ f.pid \notin alive
    /\ \A f \in locks : f.pid \notin {"self"} => f.data # "0"
    /\ \A f \in locks : f.pid # "self"

----------------------------------------------------------------------------
(* LocalSettings.value and LocalSettings.setValue.  A key is the tuple of   *)
(* its segments, <<"activepath", "asset">> for activepath/asset; a value is *)
(* a record of its type and its text.                                       *)

SettingKeys ==
    {<<"activepath", "server">>, <<"activepath", "asset">>,
     <<"widget", "filter">>}

NoneV == [t |-> "none", s |-> ""]

StrV(x) == [t |-> "str", s |-> x]

BoolV == [t |-> "bool", s |-> "true"]

\* INTERNAL_SETTINGS_DATA has no entry for the key.
Missing == [t |-> "missing", s |-> ""]

Texts == {"shot_010", "true"}

\* What QSettings.value returns for an ini file: the text, or None.
FileValues == {NoneV} \cup {StrV(x) : x \in Texts}

\* What the callers pass to setValue.
Typed == FileValues \cup {BoolV}

\* _bool(v): the text 'true' becomes True, everything else here is kept.
Bool(v) == IF v.t = "str" /\ v.s = "true" THEN BoolV ELSE v

\* QSettings.setValue: the ini file holds text.
ToFile(v) == IF v.t = "bool" THEN StrV(v.s) ELSE v

\* k.lower().startswith(u'activepath')
IsActivePath(k) == k[1] = "activepath"

\* self.current_mode() is truthy.
Solo == \E v \in mode : v # 0

Flip(c) == 1 - c.n

\* value(k)
Value(k) ==
    /\ mode # {}
    /\ IF Solo /\ IsActivePath(k)
       THEN /\ overlay' = IF overlay[k] = Missing
                          THEN [overlay EXCEPT ![k] = Bool(store[k])]
                          ELSE overlay
            /\ call' = [f |-> "value", k |-> k, v |-> NoneV,
                        ret |-> overlay'[k], n |-> Flip(call)]
       ELSE /\ overlay' = overlay
            /\ call' = [f |-> "value", k |-> k, v |-> NoneV,
                        ret |-> Bool(store[k]), n |-> Flip(call)]
    /\ UNCHANGED <<store, mode>>
    /\ UNCHANGED outsideSettings

\* setValue(k, v) saving to the file in either mode.
SetValueWritesThrough(k, v) ==
    /\ mode # {}
    /\ store' = [store EXCEPT ![k] = ToFile(v)]
    /\ overlay' = IF Solo /\ IsActivePath(k)
                  THEN [overlay EXCEPT ![k] = v] ELSE overlay
    /\ call' = [f |-> "setValue", k |-> k, v |-> v, ret |-> NoneV,
                n |-> Flip(call)]
    /\ UNCHANGED mode
    /\ UNCHANGED outsideSettings

\* setValue(k, v)
SetValue(k, v) ==
    /\ mode # {}
    /\ IF Solo /\ IsActivePath(k)
       THEN /\ overlay' = [overlay EXCEPT ![k] = v]
            /\ store' = store
       ELSE /\ store' = [store EXCEPT ![k] = ToFile(v)]
            /\ overlay' = overlay
    /\ call' = [f |-> "setValue", k |-> k, v |-> v, ret |-> NoneV,
                n |-> Flip(call)]
    /\ UNCHANGED mode
    /\ UNCHANGED outsideSettings

\* Another process, in Synchronised mode, saves a value to the same file.
PeerSetValue(k, v) ==
    /\ store' = [store EXCEPT ![k] = ToFile(v)]
    /\ store' # store
    /\ UNCHANGED <<overlay, call, mode>>
    /\ UNCHANGED outsideSettings

\* An empty settings file and an empty INTERNAL_SETTINGS_DATA; the process
\* has started in either mode.
InitSettings ==
    /\ store = [k \in SettingKeys |-> NoneV]
    /\ overlay = [k \in SettingKeys |-> Missing]
    /\ call = [f |-> "none", k |-> <<"widget", "filter">>, v |-> NoneV,
               ret |-> NoneV, n |-> 0]
    /\ mode \in {{SynchronisedMode}, {SoloMode}}
    /\ locks = {} /\ alive = {"self"} /\ dropped = {}
    /\ InitWorker /\ wkind = "info" /\ ParkedLater
    /\ ParkedUi
    /\ ParkedPaths
    /\ ParkedCall

NextSettings ==
    \/ \E k \in SettingKeys : Value(k)
    \/ \E k \in SettingKeys, v \in Typed : SetValue(k, v)
    \/ \E k \in SettingKeys, v \in Typed : PeerSetValue(k, v)
    \/ \E v \in {SynchronisedMode, SoloMode} : ToggleMode(v)

SpecSettings == InitSettings /\ [][NextSettings]_vars

\* C21: in Solo mode setValue on an activepath key changes the entry of that
\* key in the in-memory data and nothing else, value on an activepath key
\* returns the in-memory entry (filled from the file when there was none) and
\* leaves the file alone; on every other key, in either mode, setValue
\* writes the file only and value returns what the file holds.
C21_SoloDivertsActivePath ==
    [][call'.n # call.n =>
          LET k == call'.k
              diverted == mode = {SoloMode} /\ k[1] = "activepath"
          IN  /\ (diverted /\ call'.f = "setValue") =>
                    /\ store' = store
                    /\ overlay' = [overlay EXCEPT ![k] = call'.v]
              /\ (diverted /\ call'.f = "value") =>
                    /\ store' = store
                    /\ call'.ret = overlay'[k]
                    /\ \A j \in SettingKeys :
                          (j # k \/ overlay[j].t # "missing")
                             => overlay'[j] = overlay[j]
                    /\ overlay[k].t = "missing" =>
                          overlay'[k] \in
                             {store[k], [t |-> "bool", s |-> "true"]}
              /\ (k[1] # "activepath" /\ call'.f = "setValue") =>
                    /\ overlay' = overlay
                    /\ \A j \in SettingKeys \ {k} : store'[j] = store[j]
                    /\ store'[k].s = call'.v.s
              /\ (k[1] # "activepath" /\ call'.f = "value") =>
                    /\ overlay' = overlay /\ store' = store
                    /\ call'.ret.s = store[k].s
      ]_vars

\* C21 witness: in Solo mode setValue has just put a value for an activepath
\* key into the in-memory data while the file holds another one, set by
\* another process.
C21_Witness ==
    /\ mode = {SoloMode}
    /\ call.f = "setValue" /\ call.k = <<"activepath", "asset">>
    /\ overlay[call.k] = call.v
    /\ call.v.t = "str" /\ store[call.k].t = "str"
    /\ store[call.k] # call.v

----------------------------------------------------------------------------
(* common.get_sequence_startpath and common.get_sequence_endpath.  A path   *)
(* is the sequence of its characters.                                       *)

MaxPathLen == 6

Alphabet == {"a", "[", "]", "1", "2"}

Paths == UNION {[1..m -> Alphabet] : m \in 0..MaxPathLen}

\* [0-9]
IsDigit(c) == c \in {"0", "1", "2", "3", "4", "5", "6", "7", "8", "9"}

Max(S) == CHOOSE x \in S : \A y \in S : y <= x

Min(S) == CHOOSE x \in S : \A y \in S : x <= y

\* The last position of the digits that [0-9]+ takes from position i on.
RunEnd(p, i) ==
    Max({e \in i..Len(p) : \A k \in i..e : IsDigit(p[k])})

\* is_collapsed: IsSequenceRegex ^(.+?)(\[.*\])(.*)$ finds a match.
IsCollapsed(p) ==
    \E i \in 2..Len(p), j \in 1..Len(p) : i < j /\ p[i] = "[" /\ p[j] = "]"

\* The positions of a bracket where SequenceStartRegex,
\* ^(.*)\[([0-9]+).*\](.*)$, can match: digits follow, a "]" comes later.
StartOpen(p) ==
    {i \in 1..Len(p) :
        /\ p[i] = "["
        /\ i + 1 <= Len(p) /\ IsDigit(p[i + 1])
        /\ \E j \in (i + 2)..Len(p) : p[j] = "]"}

\* get_sequence_startpath returning its argument.
StartpathIdentity(path) == path

\* get_sequence_startpath: the greedy first group takes the last such
\* bracket, the second the digits after it, and .* runs to the last "]".
GetSequenceStartpath(path) ==
    IF ~IsCollapsed(path) \/ StartOpen(path) = {}
    THEN path
    ELSE LET i == Max(StartOpen(path))
             e == RunEnd(path, i + 1)
             j == Max({k \in 1..Len(path) : path[k] = "]"})
         IN  SubSeq(path, 1, i - 1) \o SubSeq(path, i + 1, e)
                \o SubSeq(path, j + 1, Len(path))

\* Where ([0-9]+)\] can match after the bracket at i.
EndStarts(p, i) ==
    {q \in (i + 1)..Len(p) :
        /\ IsDigit(p[q])
        /\ RunEnd(p, q) < Len(p) /\ p[RunEnd(p, q) + 1] = "]"}

\* The positions of a bracket where SequenceEndRegex,
\* ^(.*)\[.*?([0-9]+)\](.*)$, can match.
EndOpen(p) == {i \in 1..Len(p) : p[i] = "[" /\ EndStarts(p, i) # {}}

\* get_sequence_endpath: the greedy first group takes the last such bracket,
\* the lazy .*? stops at the first digits that end at a "]".
GetSequenceEndpath(path) ==
    IF ~IsCollapsed(path) \/ EndOpen(path) = {}
    THEN path
    ELSE LET i == Max(EndOpen(path))
             q == Min(EndStarts(path, i))
             e == RunEnd(path, q)
         IN  SubSeq(path, 1, i - 1) \o SubSeq(path, q, e)
                \o SubSeq(path, e + 2, Len(path))

StartPath ==
    /\ fn = "none"
    /\ fn' = "get_sequence_startpath"
    /\ res' = GetSequenceStartpath(arg)
    /\ UNCHANGED arg
    /\ UNCHANGED outsideCall

EndPath ==
    /\ fn = "none"
    /\ fn' = "get_sequence_endpath"
    /\ res' = GetSequenceEndpath(arg)
    /\ UNCHANGED arg
    /\ UNCHANGED outsideCall

\* get_sequence_endpath(get_sequence_startpath(path))
EndOfStartPath ==
    /\ fn = "get_sequence_startpath"
    /\ fn' = "end_of_start"
    /\ res' = GetSequenceEndpath(res)
    /\ UNCHANGED arg
    /\ UNCHANGED outsideCall

InitSeqPath ==
    /\ fn = "none"
    /\ arg \in Paths
    /\ res = << >>
    /\ InitWorker /\ wkind = "info" /\ ParkedLater
    /\ ParkedUi
    /\ ParkedPaths
    /\ ParkedMode
    /\ ParkedSettings

NextSeqPath == StartPath \/ EndPath \/ EndOfStartPath

SpecSeqPath == InitSeqPath /\ [][NextSeqPath]_vars

\* C30 as stated: for a collapsed path the end path of its start path is its
\* end path; for a path that is not collapsed the start path and the end
\* path are the path itself.
C30_EndOfStartIsEnd ==
    /\ (fn = "end_of_start" /\ IsCollapsed(arg))
          => res = GetSequenceEndpath(arg)
    /\ (fn \in {"get_sequence_startpath", "get_sequence_endpath"}
          /\ ~IsCollapsed(arg)) => res = arg

\* The path has one marker: one "[" that is not its first character, one
\* "]" after it, digits right after the "[" and right before the "]".
OneMarker(p) ==
    /\ \E i \in 2..Len(p), j \in 1..Len(p) :
          /\ i + 1 < j
          /\ p[i] = "[" /\ p[j] = "]"
          /\ \A k \in 1..Len(p) : p[k] \in {"[", "]"} => k \in {i, j}
          /\ p[i + 1] \in {"1", "2"} /\ p[j - 1] \in {"1", "2"}

\* The path with its marker replaced by the first (which = 1) or the last
\* (which = 2) number in the marker.
Replaced(p, first) ==
    LET i == CHOOSE k \in 1..Len(p) : p[k] = "["
        j == CHOOSE k \in 1..Len(p) : p[k] = "]"
        a == CHOOSE e \in (i + 1)..(j - 1) :
                /\ \A k \in (i + 1)..e : p[k] \in {"1", "2"}
                /\ p[e + 1] \notin {"1", "2"}
        b == CHOOSE q \in (i + 1)..(j - 1) :
                /\ \A k \in q..(j - 1) : p[k] \in {"1", "2"}
                /\ p[q - 1] \notin {"1", "2"}
    IN  IF first
        THEN SubSeq(p, 1, i - 1) \o SubSeq(p, i + 1, a)
                \o SubSeq(p, j + 1, Len(p))
        ELSE SubSeq(p, 1, i - 1) \o SubSeq(p, b, j - 1)
                \o SubSeq(p, j + 1, Len(p))

\* C30, amended: for a path that is not collapsed the start path and the end
\* path are the path itself; for a path with one marker the start path is
\* the path with the marker replaced by its first number, the end path the
\* path with the marker replaced by its last number, and the end path of the
\* start path is the start path.
C30_StartAndEndReplaceMarker ==
    /\ (fn \in {"get_sequence_startpath", "get_sequence_endpath"}
          /\ ~IsCollapsed(arg)) => res = arg
    /\ (fn = "get_sequence_startpath" /\ OneMarker(arg))
          => res = Replaced(arg, TRUE)
    /\ (fn = "get_sequence_endpath" /\ OneMarker(arg))
          => res = Replaced(arg, FALSE)
    /\ (fn = "end_of_start" /\ OneMarker(arg))
          => res = Replaced(arg, TRUE)

\* C30 witness: the end path of the start path of a[1a2] is a1.
C30_Witness ==
    /\ fn = "end_of_start"
    /\ arg = <<"a", "[", "1", "a", "2", "]">>
    /\ res = <<"a", "1">>

----------------------------------------------------------------------------
(* common.namekey.  A name is the sequence of its characters; an element of *)
(* the key is a record: an integer (int = TRUE, n its value) or a piece of  *)
(* text (int = FALSE, c the text).                                          *)

MaxNameLen == 4

NameAlphabet == {"a", "/", "0", "1"}

FileNames == UNION {[1..m -> NameAlphabet] : m \in 0..MaxNameLen}

DigitChars == <<"0", "1", "2", "3", "4", "5", "6", "7", "8", "9">>

\* int(f) for a digit f.
DigitVal(c) == (CHOOSE i \in 1..Len(DigitChars) : DigitChars[i] = c) - 1

IntTok(v) == [int |-> TRUE, n |-> v, c |-> ""]

ChrTok(x) == [int |-> FALSE, n |-> 0, c |-> x]

\* s.split(u'/')
RECURSIVE Split(_)
Split(s) ==
    IF \A i \in 1..Len(s) : s[i] # "/"
    THEN <<s>>
    ELSE LET i == Min({k \in 1..Len(s) : s[k] = "/"})
         IN  <<SubSeq(s, 1, i - 1)>> \o Split(SubSeq(s, i + 1, Len(s)))

\* u'Ω' * n
Omegas(m) == [i \in 1..m |-> "Ω"]

\* The text namekey makes its key of.
Sorted(s, basename) ==
    IF basename THEN Split(s)[Len(Split(s))] ELSE Omegas(Len(Split(s))) \o s

\* namekey(s): [int(f) if f.isdigit() else f for f in s]
NameKey(s, basename) ==
    LET t == Sorted(s, basename)
    IN  [i \in 1..Len(t) |->
            IF IsDigit(t[i]) THEN IntTok(DigitVal(t[i])) ELSE ChrTok(t[i])]

CallNameKey ==
    /\ fn = "none"
    /\ fn' = "namekey"
    /\ res' = NameKey(arg.s, arg.basename)
    /\ UNCHANGED arg
    /\ UNCHANGED outsideCall

\* A name and a value of SORT_WITH_BASENAME.
InitNameKey ==
    /\ fn = "none"
    /\ arg \in [s : FileNames, basename : BOOLEAN]
    /\ res = << >>
    /\ InitWorker /\ wkind = "info" /\ ParkedLater
    /\ ParkedUi
    /\ ParkedPaths
    /\ ParkedMode
    /\ ParkedSettings

NextNameKey == CallNameKey

SpecNameKey == InitNameKey /\ [][NextNameKey]_vars

\* The values of the maximal runs of digits of s from position i on, acc
\* being the value of the run read so far and -1 outside a run.
RECURSIVE RunValues(_, _, _)
RunValues(s, i, acc) ==
    IF i > Len(s)
    THEN IF acc >= 0 THEN <<acc>> ELSE << >>
    ELSE IF s[i] \in {"0", "1"}
         THEN RunValues(s, i + 1,
                 (IF acc < 0 THEN 0 ELSE acc) * 10
                    + (IF s[i] = "1" THEN 1 ELSE 0))
         ELSE (IF acc >= 0 THEN <<acc>> ELSE << >>)
                 \o RunValues(s, i + 1, -1)

\* The integers of a key, in order.
RECURSIVE IntsOf(_)
IntsOf(key) ==
    IF key = << >> THEN << >>
    ELSE (IF key[1].int THEN <<key[1].n>> ELSE << >>) \o IntsOf(Tail(key))

\* C29: the integers in the key of a name are the values of the maximal
\* runs of digits of the text the key is made of (the name, or its last
\* component when SORT_WITH_BASENAME is set), one integer for each run.
C29_DigitRunsBecomeIntegers ==
    fn = "namekey" =>
       IntsOf(res) = RunValues(Sorted(arg.s, arg.basename), 1, -1)

----------------------------------------------------------------------------
(* The flag filters of FilterProxyModel, with set_filtermode called for     *)
(* each of the three flags.                                                 *)

NextFilter ==
    \/ \E a \in {Names[r] : r \in UiRows} \cup {""} : UiLoad(a)
    \/ \E k \in {"favourite", "archived", "active"}, v \in BOOLEAN :
          SetFilterMode(k, v)
    \/ \E r \in UiRows, state \in States : ToggleFavourite(r, state)
    \/ \E r \in UiRows : ContextMenuArchived(r)

SpecFilter == InitUi /\ [][NextFilter]_vars

\* C27: a row is accepted by the proxy exactly when (the favourite filter is
\* off or the row is favourite) and (the archived filter is on or the row is
\* not archived) and (the active filter is off or the row is active).
C27_VisibleIffThreeFilters ==
    \A r \in DOMAIN flags :
       Visible(r) <=>
          /\ ~filter_mode.favourite \/ flags[r].favourite
          /\ filter_mode.archived \/ ~flags[r].archived
          /\ \/ ~("active" \in DOMAIN filter_mode /\ filter_mode.active)
             \/ flags[r].active

----------------------------------------------------------------------------
(* FilterProxyModel.sort and lessThan.  arg is the proxy and its source:    *)
(* the sort values of the rows, sortkey, sortorder, the order the Qt proxy  *)
(* last sorted with, and, as history, what has changed since the last       *)
(* sort.  res is the visible order, a sequence of source rows.              *)

SortRows == {1, 2, 3}

SourceOrder == <<1, 2, 3>>

SortKeyNames == {"name", "size"}

KeyValues == {1, 2}

\* common.sort_keys[self.sortkey](info): the sort value of a row.
SortValue(r, a) == a.key[r][a.sortkey]

\* lessThan with <= for <.
LessThanOrEqual(l, r, a) == SortValue(l, a) <= SortValue(r, a)

\* FilterProxyModel.lessThan(source_left, source_right)
LessThan(l, r, a) == SortValue(l, a) < SortValue(r, a)

\* The comparison QSortFilterProxyModel sorts with: lessThan for ascending
\* order, lessThan with its arguments exchanged for descending order.
Before(x, y, a, o) == IF o = "asc" THEN LessThan(x, y, a) ELSE LessThan(y, x, a)

\* x put into the sorted rows q, behind every row it does not come before.
RECURSIVE Insert(_, _, _, _)
Insert(q, x, a, o) ==
    IF q = << >> THEN <<x>>
    ELSE IF Before(x, q[Len(q)], a, o)
         THEN Append(Insert(Front(q), x, a, o), q[Len(q)])
         ELSE Append(q, x)

\* QSortFilterProxyModel.sort: a stable sort of the rows in their present
\* order.
RECURSIVE StableSort(_, _, _)
StableSort(q, a, o) ==
    IF q = << >> THEN << >>
    ELSE Insert(StableSort(Front(q), a, o), q[Len(q)], a, o)

\* The order sort() asks for: ascending when self.sortorder is set.
OrderOf(a) == IF a.sortorder THEN "asc" ELSE "desc"

\* QSortFilterProxyModel.invalidate: the rows in source order, sorted with
\* the order of the last sort if there was one.
Invalidated(a) ==
    IF a.qorder = "none" THEN SourceOrder
    ELSE StableSort(SourceOrder, a, a.qorder)

\* FilterProxyModel.sort()
ProxySort ==
    /\ fn # "none"
    /\ fn' = "sort"
    /\ res' = StableSort(res, arg, OrderOf(arg))
    /\ arg' = [arg EXCEPT !.qorder = OrderOf(arg), !.dirty = {},
                          !.changed = FALSE]
    /\ UNCHANGED outsideCall

\* FilterProxyModel.set_sortkey(val)
SetSortKey(k) ==
    /\ fn # "none"
    /\ fn' = "set_sortkey"
    /\ arg' = [arg EXCEPT !.sortkey = k,
                          !.changed = @ \/ arg.sortkey # k]
    /\ res' = Invalidated(arg')
    /\ UNCHANGED outsideCall

\* FilterProxyModel.set_sortorder(val); the sort menu calls it with
\* not sortorder.
SetSortOrder(v) ==
    /\ fn # "none"
    /\ fn' = "sort"
    /\ LET a == [arg EXCEPT !.sortorder = v]
       IN  /\ res' = StableSort(Invalidated(a), a, OrderOf(a))
           /\ arg' = [a EXCEPT !.qorder = OrderOf(a), !.dirty = {},
                               !.changed = FALSE]
    /\ UNCHANGED outsideCall

\* A worker has written another sort value into a row.
SortValueChanged(r, k, v) ==
    /\ fn # "none"
    /\ arg.key[r][k] # v
    /\ fn' = "data"
    /\ arg' = [arg EXCEPT !.key[r][k] = v,
                          !.dirty = IF k = arg.sortkey THEN @ \cup {r} ELSE @]
    /\ UNCHANGED res
    /\ UNCHANGED outsideCall

\* BaseListWidget.__init__: the proxy is made and the rows are loaded.
ProxyInit ==
    /\ fn = "none"
    /\ fn' = "init"
    /\ UNCHANGED <<arg, res>>
    /\ UNCHANGED outsideCall

InitSort ==
    /\ fn = "none"
    /\ arg \in [key : [SortRows -> [SortKeyNames -> KeyValues]],
                sortkey : SortKeyNames, sortorder : BOOLEAN,
                qorder : {"none"}, dirty : {{}}, changed : {TRUE}]
    /\ res = SourceOrder
    /\ InitWorker /\ wkind = "info" /\ ParkedLater
    /\ ParkedUi
    /\ ParkedPaths
    /\ ParkedMode
    /\ ParkedSettings

NextSort ==
    \/ ProxyInit
    \/ ProxySort
    \/ \E k \in SortKeyNames : SetSortKey(k)
    \/ SetSortOrder(~arg.sortorder)
    \/ \E r \in SortRows, k \in SortKeyNames, v \in KeyValues :
          SortValueChanged(r, k, v)

SpecSort == InitSort /\ [][NextSort]_vars

\* The position of row x in the visible order q.
PositionOf(q, x) == CHOOSE i \in 1..Len(q) : q[i] = x

\* A call of sort() is being made: the step ends with a sort and the key
\* and order settings stay as they are.
SortCall ==
    /\ fn # "none" /\ fn' = "sort"
    /\ arg'.sortorder = arg.sortorder /\ arg'.sortkey = arg.sortkey

\* C28 as stated: a sort that follows a sort leaves the visible order as it
\* is, and a sort moves a row to another position only when the sort value
\* of that row or the key or order setting has changed since the last sort.
C28_PositionChangesOnlyOnOwnKey ==
    [][SortCall =>
          /\ fn = "sort" => res' = res
          /\ \A x \in SortRows :
                PositionOf(res', x) # PositionOf(res, x)
                   => (x \in arg.dirty \/ arg.changed)
      ]_vars

\* C28, amended: a sort that follows a sort leaves the visible order as it
\* is, and a sort changes the order of two rows relative to each other only
\* when the sort value of one of the two or the key or order setting has
\* changed since the last sort.
C28_RelativeOrderChangesOnlyOnKeys ==
    [][SortCall =>
          /\ fn = "sort" => res' = res
          /\ \A x, y \in SortRows :
                (/\ PositionOf(res, x) < PositionOf(res, y)
                 /\ PositionOf(res', y) < PositionOf(res', x))
                   => (x \in arg.dirty \/ y \in arg.dirty \/ arg.changed)
      ]_vars

\* C28 witness: three rows with equal sort values stand in an order that is
\* not the order of the source: a row was sorted behind the others while its
\* value was higher, and the sorts since have kept it there.
C28_Witness ==
    /\ fn = "sort"
    /\ arg.sortkey = "name" /\ arg.sortorder
    /\ \A r \in SortRows : arg.key[r]["name"] = 1
    /\ res = <<2, 3, 1>>

----------------------------------------------------------------------------
(* FavouritesModel.__initdata__.  A path is the sequence of its pieces:     *)
(* <<folder, name, number, ".", extension>> when get_sequence finds a       *)
(* number in it, <<folder, name, ".", extension>> when it does not.  arg is *)
(* the scan (the saved favourites that are shown) and what is left of the   *)
(* two loops; res holds the File rows, the local seqs and the Sequence rows.*)

FavouritePaths ==
    {<<"/f/", "a", "1", ".", "exr">>, <<"/f/", "a", "2", ".", "exr">>,
     <<"/f/", "a", "10", ".", "exr">>, <<"/f/", "b", "1", ".", "exr">>,
     <<"/f/", "notes", ".", "txt">>}

\* common.get_sequence(filepath) finds a match.
IsSeq(path) == Len(path) = Len(<<"folder", "name", "number", ".", "ext">>)

\* seq.group(2)
FrameOf(path) == path[3]

\* filepath.split(u'/')[-1]
FileNameOf(path) == Tail(path)

\* u'{}[0]{}.{}'.format(seq.group(1), seq.group(3), seq.group(4))
SeqPathOf(path) == <<path[1], path[2], "[0]", path[4], path[5]>>

\* seq.expand(ur'\1{}\3.\4').format(frame)
Expanded(path, frame) == <<path[1], path[2], frame, path[4], path[5]>>

NoMatch == << >>

\* The row of the File projection made for filepath.
FileRow(filepath) ==
    [type |-> "file", display |-> FileNameOf(filepath), path |-> filepath,
     sortbyname |-> FileNameOf(filepath), frames |-> << >>,
     seq |-> IF IsSeq(filepath) THEN filepath ELSE NoMatch]

\* The row put into seqs for a sequence first met in filepath.
SeqRow(filepath) ==
    [type |-> "sequence", display |-> FileNameOf(SeqPathOf(filepath)),
     path |-> SeqPathOf(filepath), sortbyname |-> SeqPathOf(filepath),
     frames |-> << >>, seq |-> filepath]

\* seqs[k] = v
Put(d, k, v) == [x \in DOMAIN d \cup {k} |-> IF x = k THEN v ELSE d[x]]

\* The body of the first loop making a new row for every file of a sequence.
SeqsAfterOverwriting(seqs, filepath) ==
    IF IsSeq(filepath)
    THEN Put(seqs, SeqPathOf(filepath),
             [SeqRow(filepath) EXCEPT !.frames = <<FrameOf(filepath)>>])
    ELSE Put(seqs, filepath, FileRow(filepath))

\* The body of the first loop, what it does to seqs: the row of the sequence
\* is made when it is not there yet and the number of the file is appended
\* to its frames; a file that is no sequence gets its File row.
SeqsAfter(seqs, filepath) ==
    IF IsSeq(filepath)
    THEN LET k == SeqPathOf(filepath)
             d == IF k \in DOMAIN seqs THEN seqs
                  ELSE Put(seqs, k, SeqRow(filepath))
         IN  [d EXCEPT ![k].frames = Append(@, FrameOf(filepath))]
    ELSE Put(seqs, filepath, FileRow(filepath))

\* The body of the second loop: a sequence of one frame becomes a file.
CastRow(v) ==
    IF Len(v.frames) = 1
    THEN LET filepath == Expanded(v.seq, v.frames[1])
         IN  [v EXCEPT !.display = FileNameOf(filepath), !.path = filepath,
                       !.type = "file", !.sortbyname = filepath]
    ELSE IF Len(v.frames) = 0 THEN [v EXCEPT !.type = "file"]
    ELSE v

\* The keys seqs can get.
SeqKeys ==
    FavouritePaths
       \cup {SeqPathOf(f) : f \in {g \in FavouritePaths : IsSeq(g)}}

\* One pass of `for filepath in sfavourites`, a set: in any order.
ScanFile(filepath) ==
    /\ fn \in {"none", "scan"}
    /\ filepath \in arg.todo
    /\ fn' = "scan"
    /\ arg' = [arg EXCEPT !.todo = @ \ {filepath}]
    /\ res' = [res EXCEPT !.files = Append(@, FileRow(filepath)),
                          !.seqs = SeqsAfter(@, filepath)]
    /\ UNCHANGED outsideCall

\* One pass of `for v in seqs.itervalues()`, in any order.
CastSequence(k) ==
    /\ fn \in {"none", "scan", "cast"}
    /\ arg.todo = {}
    /\ k \in DOMAIN res.seqs /\ k \notin arg.cast
    /\ fn' = "cast"
    /\ arg' = [arg EXCEPT !.cast = @ \cup {k}]
    /\ res' = [res EXCEPT !.sequence = Append(@, CastRow(res.seqs[k]))]
    /\ UNCHANGED outsideCall

\* __initdata__ returns.
ScanDone ==
    /\ fn \in {"none", "scan", "cast"}
    /\ arg.todo = {} /\ arg.cast = DOMAIN res.seqs
    /\ fn' = "done"
    /\ UNCHANGED <<arg, res>>
    /\ UNCHANGED outsideCall

InitScan ==
    /\ fn = "none"
    /\ \E S \in SUBSET FavouritePaths :
          arg = [scan |-> S, todo |-> S, cast |-> {}]
    /\ res = [files |-> << >>, seqs |-> << >>, sequence |-> << >>]
    /\ InitWorker /\ wkind = "info" /\ ParkedLater
    /\ ParkedUi
    /\ ParkedPaths
    /\ ParkedMode
    /\ ParkedSettings

NextScan ==
    \/ \E f \in FavouritePaths : ScanFile(f)
    \/ \E k \in SeqKeys : CastSequence(k)
    \/ ScanDone

SpecScan == InitScan /\ [][NextScan]_vars

\* The places of the Sequence projection that account for the file f: row i
\* itself (j = 0) when it is a file row of that path, frame j of row i when
\* it is a sequence row and its sequence with that frame is the path.
AccountsFor(f) ==
    {ij \in (1..Len(res.sequence)) \X (0..Cardinality(FavouritePaths)) :
        LET v == res.sequence[ij[1]]
            j == ij[2]
        IN  IF v.type = "file"
            THEN j = 0 /\ v.path = f
            ELSE /\ j \in 1..Len(v.frames)
                 /\ <<v.seq[1], v.seq[2], v.frames[j], v.seq[4], v.seq[5]>>
                       = f}

\* C24: when the scan is done, every scanned file is the path of exactly
\* one row of the File projection and is accounted for at exactly one place
\* of the Sequence projection, as a frame of a sequence row or as a file row.
C24_EachFileOnceInBothProjections ==
    fn = "done" =>
       \A f \in arg.scan :
          /\ Cardinality({i \in 1..Len(res.files) : res.files[i].path = f})
                = 1
          /\ Cardinality(AccountsFor(f)) = 1

\* C24 witness: the scan of all the paths is done: one sequence of three
\* frames, one of a single frame, and a file that is no sequence.
C24_Witness ==
    /\ fn = "done"
    /\ arg.scan = FavouritePaths
    /\ Len(res.files) = 5 /\ Len(res.sequence) = 3
    /\ \E i \in 1..Len(res.sequence) : Len(res.sequence[i].frames) = 3

\* C25: when the scan is done, a row of the Sequence projection that stands
\* for a sequence of one frame is a file row equal, field by field, to the
\* row of the File projection with the same path.
C25_SingleFrameRowEqualsFileRow ==
    fn = "done" =>
       \A i \in 1..Len(res.sequence) :
          Len(res.sequence[i].frames) = 1 =>
             /\ res.sequence[i].type = "file"
             /\ \E j \in 1..Len(res.files) :
                   /\ res.files[j].path = res.sequence[i].path
                   /\ res.files[j] = res.sequence[i]

\* int(f) for the frames of the scan.
FrameNumber(t) == CASE t = "1" -> 1 [] t = "2" -> 2 [] t = "10" -> 10

\* C26: when the scan is done, the frames of every sequence row stand in
\* ascending order of their integer values.
C26_FramesSortedByInteger ==
    fn = "done" =>
       \A i \in 1..Len(res.sequence) :
          res.sequence[i].type = "sequence" =>
             \A j, k \in 1..Len(res.sequence[i].frames) :
                j < k => FrameNumber(res.sequence[i].frames[j])
                            <= FrameNumber(res.sequence[i].frames[k])

----------------------------------------------------------------------------
(* common.get_ranges.  A text is the sequence of its characters.  The       *)
(* numbers are frame numbers, int(f) of a run of digits, so they are not    *)
(* negative.                                                                *)

MaxRangeLen == 3

RangeValues == {1, 2, 3, 9, 10, 11}

RangePaddings == {1, 2, 3}

\* The two calls the documentation gives as examples.
RangeExamples == {<<1, 2, 3, 5, 6, 10>>, <<1, 2, 3, 5, 7, 8, 9>>}

RangeArrays ==
    UNION {[1..m -> RangeValues] : m \in 0..MaxRangeLen} \cup RangeExamples

\* unicode(n) of a number that is not negative.
RECURSIVE Unicode(_)
Unicode(num) ==
    IF num < 10
    THEN <<DigitChars[num + 1]>>
    ELSE Unicode(num \div 10) \o <<DigitChars[(num % 10) + 1]>>

\* text.zfill(width): zeros on the left up to the width, never a cut.
RECURSIVE Zfill(_, _)
Zfill(text, width) ==
    IF Len(text) >= width THEN text ELSE Zfill(<<"0">> \o text, width)

\* The order of two texts of digits under sorted(): character by character,
\* a proper prefix first.
RECURSIVE TextLess(_, _)
TextLess(a, b) ==
    IF a = << >> THEN b # << >>
    ELSE IF b = << >> THEN FALSE
    ELSE IF a[1] = b[1] THEN TextLess(Tail(a), Tail(b))
    ELSE DigitVal(a[1]) < DigitVal(b[1])

\* sorted(list(set(arr))) of numbers.
RECURSIVE SortedSet(_)
SortedSet(S) ==
    IF S = {} THEN << >> ELSE <<Min(S)>> \o SortedSet(S \ {Min(S)})

\* The loop of get_ranges from index idx on (idx counted from 1): blocks[k]
\* is kept at place k + 1 of the sequence blocks.
RECURSIVE RangeBlocks(_, _, _, _, _)
RangeBlocks(arr, padding, idx, k, blocks) ==
    IF idx > Len(arr) THEN blocks
    ELSE LET zfill == Zfill(Unicode(arr[idx]), padding)
             b == IF k + 1 > Len(blocks) THEN Append(blocks, << >>)
                  ELSE blocks
             b2 == [b EXCEPT ![k + 1] = Append(@, zfill)]
             k2 == IF idx # Len(arr) /\ arr[idx + 1] # arr[idx] + 1
                   THEN k + 1 ELSE k
         IN  RangeBlocks(arr, padding, idx + 1, k2, b2)

\* u'-'.join(sorted(list(set([block[0], block[-1]])))): the two texts in
\* the order of texts.
JoinBlock(block) ==
    LET first == block[1]
        last == block[Len(block)]
    IN  IF first = last THEN first
        ELSE IF TextLess(first, last) THEN first \o <<"-">> \o last
        ELSE last \o <<"-">> \o first

\* u','.join(texts)
RECURSIVE JoinComma(_)
JoinComma(texts) ==
    IF texts = << >> THEN << >>
    ELSE IF Len(texts) = 1 THEN texts[1]
    ELSE texts[1] \o <<",">> \o JoinComma(Tail(texts))

GetRanges(arr, padding) ==
    LET sorted == SortedSet({arr[i] : i \in 1..Len(arr)})
        blocks == RangeBlocks(sorted, padding, 1, 0, << >>)
    IN  JoinComma([k \in 1..Len(blocks) |-> JoinBlock(blocks[k])])

CallGetRanges ==
    /\ fn = "none"
    /\ fn' = "get_ranges"
    /\ res' = GetRanges(arg.arr, arg.padding)
    /\ UNCHANGED arg
    /\ UNCHANGED outsideCall

\* A list of frame numbers and a padding.
InitRanges ==
    /\ fn = "none"
    /\ arg \in [arr : RangeArrays, padding : RangePaddings]
    /\ res = << >>
    /\ InitWorker /\ wkind = "info" /\ ParkedLater
    /\ ParkedUi
    /\ ParkedPaths
    /\ ParkedMode
    /\ ParkedSettings

NextRanges == CallGetRanges

SpecRanges == InitRanges /\ [][NextRanges]_vars

\* The first numbers of the maximal runs of consecutive numbers of S.
RunStarts(S) == {a \in S : a - 1 \notin S}

\* The last number of the run of S that starts at a.
RunLast(S, a) == Min({b \in S : b >= a /\ b + 1 \notin S})

\* The runs of S from the smallest on, each as first-last, or as its one
\* number, every number filled with zeros.
RECURSIVE RenderRuns(_, _, _)
RenderRuns(S, starts, padding) ==
    IF starts = {} THEN << >>
    ELSE LET a == Min(starts)
             b == RunLast(S, a)
             one == IF a = b THEN Zfill(Unicode(a), padding)
                    ELSE Zfill(Unicode(a), padding) \o <<"-">>
                            \o Zfill(Unicode(b), padding)
         IN  <<one>> \o RenderRuns(S, starts \ {a}, padding)

\* C31: get_ranges returns the maximal runs of consecutive numbers of the
\* list in ascending order, each as first-last (one number for a run of
\* one), every number filled with zeros to the padding, joined by commas.
C31_RangesRendersMaximalRuns ==
    fn = "get_ranges" =>
       LET S == {arg.arr[i] : i \in 1..Len(arg.arr)}
       IN  res = JoinComma(RenderRuns(S, RunStarts(S), arg.padding))

\* The two documented examples come out as documented.
C31_ExamplesHold ==
    /\ (fn = "get_ranges" /\ arg = [arr |-> <<1, 2, 3, 5, 6, 10>>,
                                    padding |-> 3])
          => res = <<"0", "0", "1", "-", "0", "0", "3", ",",
                     "0", "0", "5", "-", "0", "0", "6", ",", "0", "1", "0">>
    /\ (fn = "get_ranges" /\ arg = [arr |-> <<1, 2, 3, 5, 7, 8, 9>>,
                                    padding |-> 3])
          => res = <<"0", "0", "1", "-", "0", "0", "3", ",",
                     "0", "0", "5", ",", "0", "0", "7", "-", "0", "0", "9">>

\* The claim holds whenever no number is longer than the padding.
C31_HoldsWithinPadding ==
    (fn = "get_ranges"
       /\ \A i \in 1..Len(arg.arr) : Len(Unicode(arg.arr[i])) <= arg.padding)
    => LET S == {arg.arr[i] : i \in 1..Len(arg.arr)}
       IN  res = JoinComma(RenderRuns(S, RunStarts(S), arg.padding))

----------------------------------------------------------------------------
(* The sizes and modification times InfoWorker writes.                      *)

\* sum(entry.size) over the entries from k on.
RECURSIVE SumSizes(_)
SumSizes(k) ==
    IF k > Len(Entries) THEN 0 ELSE Entries[k].st_size + SumSizes(k + 1)

\* max(entry.mtime)
MaxMtime == Max({Entries[k].st_mtime : k \in 1..Len(Entries)})

\* The sequence rows an InfoWorker has taken through the loop over their
\* entries and the write of the modification time that follows it.
FinishedSequences ==
    {i \in DOMAIN rows : /\ TypeRole(i) = "sequence"
                         /\ "sort_mtime" \in rows[i].written}

----------------------------------------------------------------------------
(* The loop of TaskFolderWorker.process_data over a task folder large       *)
(* enough for the cap to matter.  Nothing interrupts the worker here and    *)
(* the row stays alive, so is_valid() is true throughout; the interleavings *)
(* with the other threads are those of the worker specification above.      *)

\* How many entries common.walk() yields.
WalkSizes == {0, 3, 999, 1000, 1001, 1002}

\* Which of them are hidden (entry.name.startswith(u'.')), by position.
WalkHidden == SUBSET {1, 3, 1000}

\* The entry at place i is hidden.
Hidden(a, i) == i \in a.hidden

\* The entries of the folder that are not hidden.
VisibleEntries(a) == {i \in 1..a.entries : ~Hidden(a, i)}

\* threads.py:657: `count = 0`.
WalkBegin ==
    /\ fn = "none"
    /\ fn' = "walk"
    /\ res' = [idx |-> 1, count |-> 0, todo_count |-> 0]
    /\ UNCHANGED arg
    /\ UNCHANGED outsideCall

\* `if count > 999: break`
Breaks(c) == c > CountCap

\* threads.py:658-665: one turn of the loop.
WalkTurn ==
    /\ fn = "walk"
    /\ res.idx <= arg.entries
    /\ IF Hidden(arg, res.idx)
       THEN res' = [res EXCEPT !.idx = @ + 1]
       ELSE res' = [res EXCEPT
                       !.count = @ + 1,
                       !.idx = IF Breaks(res.count + 1)
                               THEN arg.entries + 1 ELSE @ + 1]
    /\ UNCHANGED <<fn, arg>>
    /\ UNCHANGED outsideCall

\* threads.py:668: `ref()[common.TodoCountRole] = count`.
WalkWrite ==
    /\ fn = "walk"
    /\ res.idx > arg.entries
    /\ fn' = "written"
    /\ res' = [res EXCEPT !.todo_count = res.count]
    /\ UNCHANGED arg
    /\ UNCHANGED outsideCall

\* A task folder.
InitWalk ==
    /\ fn = "none"
    /\ arg \in [entries : WalkSizes, hidden : WalkHidden]
    /\ res = << >>
    /\ InitWorker /\ wkind = "task" /\ ParkedLater
    /\ ParkedUi
    /\ ParkedPaths
    /\ ParkedMode
    /\ ParkedSettings

NextWalk == WalkBegin \/ WalkTurn \/ WalkWrite

SpecWalk == InitWalk /\ [][NextWalk]_vars

\* C33: the count the worker writes is at most 999 and counts no hidden
\* entry.
C33_CountAtMostCapNoHidden ==
    fn = "written" =>
       /\ res.todo_count <= CountCap
       /\ res.todo_count <= Cardinality(VisibleEntries(arg))

\* What the loop does write: the number of entries that are not hidden, or
\* one more than the cap when there are more of them than the cap.
C33_CountIsVisibleUpToCapPlusOne ==
    fn = "written" =>
       res.todo_count =
          IF Cardinality(VisibleEntries(arg)) > CountCap
          THEN CountCap + 1 ELSE Cardinality(VisibleEntries(arg))

----------------------------------------------------------------------------
(* The image cache of src/gwbrowser/imagecache.py: the class-level dict    *)
(* ImageCache._data, get() and remove().  The worker threads call get()    *)
(* from ImageCacheWorker.process_index, the UI thread calls get() from     *)
(* capture() and is the only one to call remove().  No lock is taken       *)
(* anywhere in the module; the interpreter makes one dict operation        *)
(* atomic, so a step is one access to the dict.                            *)

CacheThreads == {"ui", "w1", "w2"}

\* The keys u'{path}:{height}' and u'{path}:BackgroundColor' of the row's
\* thumbnail, and the key of another image.
ImageKey == [path |-> "row", tag |-> "height"]

ColourKey == [path |-> "row", tag |-> "BackgroundColor"]

OtherKey == [path |-> "other", tag |-> "height"]

CacheKeys == {ImageKey, ColourKey, OtherKey}

\* `index.data(common.ThumbnailPathRole).lower() in k.lower()`: of the keys
\* here those of the row's thumbnail path.
MatchesRow(k) == k.path = "row"

\* What the cache holds under a key.
ValueOf(k) == IF k.tag = "BackgroundColor" THEN "colour" ELSE "image"

\* The locals of a thread that is in neither function.
NoLocals ==
    [k |-> ImageKey, overwrite |-> FALSE, nth |-> 0, used |-> 0, keys |-> {},
     image |-> "none", ret |-> "none"]

\* An exception leaves the function; the thread does not come back.
Raises(t, e) ==
    /\ tpc' = [tpc EXCEPT ![t] = "raised"]
    /\ tloc' = [tloc EXCEPT ![t].ret = e]

\* process_index, imagecache.py:139-148, and capture(), 368-375: get() for
\* the image with overwrite=True, then get() for the colour.
GetImage(t) ==
    /\ tpc[t] = "idle"
    /\ tpc' = [tpc EXCEPT ![t] = "g_test"]
    /\ tloc' = [tloc EXCEPT ![t] =
                   [NoLocals EXCEPT !.k = ImageKey, !.overwrite = TRUE,
                                    !.nth = 1]]
    /\ UNCHANGED <<data, thumbfile, irow>>
    /\ UNCHANGED outsideCache

\* get() returns v to its caller: the second call follows the first, the
\* writes to the row follow the second.
Returns(t, v) ==
    IF tloc[t].nth = 1
    THEN /\ tpc' = [tpc EXCEPT ![t] = "g_test"]
         /\ tloc' = [tloc EXCEPT ![t] =
                        [NoLocals EXCEPT !.k = ColourKey, !.nth = 2,
                                         !.image = v]]
    ELSE /\ tpc' = [tpc EXCEPT ![t] = "w_row"]
         /\ tloc' = [tloc EXCEPT ![t].ret = v]

\* imagecache.py:236: `if k in ImageCache._data and not overwrite`.
GetTest(t) ==
    /\ tpc[t] = "g_test"
    /\ tpc' = [tpc EXCEPT ![t] =
                  IF tloc[t].k \in data /\ ~tloc[t].overwrite
                  THEN "g_ret" ELSE "g_load"]
    /\ UNCHANGED <<data, tloc, thumbfile, irow>>
    /\ UNCHANGED outsideCache

\* imagecache.py:237 and 259: `return ImageCache._data[k]`.
GetReturn(t) ==
    /\ tpc[t] \in {"g_ret", "g_ret2"}
    /\ IF tloc[t].k \in data
       THEN Returns(t, ValueOf(tloc[t].k))
       ELSE Raises(t, "KeyError")
    /\ UNCHANGED <<data, thumbfile, irow>>
    /\ UNCHANGED outsideCache

\* imagecache.py:239-251: the file cannot be opened and get() returns None,
\* or the image is loaded and resized; resize_image() takes float(size),
\* which raises ValueError for u'BackgroundColor'.
GetLoad(t) ==
    /\ tpc[t] = "g_load"
    /\ IF ~thumbfile
       THEN Returns(t, "None")
       ELSE IF tloc[t].k.tag = "BackgroundColor"
       THEN Raises(t, "ValueError")
       ELSE tpc' = [tpc EXCEPT ![t] = "g_col"] /\ UNCHANGED tloc
    /\ UNCHANGED <<data, thumbfile, irow>>
    /\ UNCHANGED outsideCache

\* imagecache.py:254-256: the colour is stored under path:BackgroundColor.
GetStoreColour(t) ==
    /\ tpc[t] = "g_col"
    /\ data' = data \cup {[tloc[t].k EXCEPT !.tag = "BackgroundColor"]}
    /\ tpc' = [tpc EXCEPT ![t] = "g_img"]
    /\ UNCHANGED <<tloc, thumbfile, irow>>
    /\ UNCHANGED outsideCache

\* imagecache.py:257: `ImageCache._data[k] = image`.
GetStoreImage(t) ==
    /\ tpc[t] = "g_img"
    /\ data' = data \cup {tloc[t].k}
    /\ tpc' = [tpc EXCEPT ![t] = "g_ret2"]
    /\ UNCHANGED <<tloc, thumbfile, irow>>
    /\ UNCHANGED outsideCache

\* imagecache.py:150-154 and 377-380: the image and the colour go into the
\* row.
WriteRow(t) ==
    /\ tpc[t] = "w_row"
    /\ irow' = [irow EXCEPT !.thumbnail = tloc[t].image,
                            !.background = tloc[t].ret]
    /\ tpc' = [tpc EXCEPT ![t] = "idle"]
    /\ tloc' = [tloc EXCEPT ![t] = NoLocals]
    /\ UNCHANGED <<data, thumbfile>>
    /\ UNCHANGED outsideCache

\* remove(), imagecache.py:389-394: the thumbnail file is deleted if it is
\* there.
RemoveFile ==
    /\ tpc["ui"] = "idle"
    /\ thumbfile' = FALSE
    /\ tpc' = [tpc EXCEPT !["ui"] = "r_iter"]
    /\ tloc' = [tloc EXCEPT !["ui"] = NoLocals]
    /\ UNCHANGED <<data, irow>>
    /\ UNCHANGED outsideCache

\* imagecache.py:396: the iteration over the dict begins; the iterator
\* remembers the size of the dict.
RemoveIterBegin ==
    /\ tpc["ui"] = "r_iter"
    /\ tloc' = [tloc EXCEPT !["ui"].used = Cardinality(data)]
    /\ tpc' = [tpc EXCEPT !["ui"] = "r_keys"]
    /\ UNCHANGED <<data, thumbfile, irow>>
    /\ UNCHANGED outsideCache

\* imagecache.py:396-397: the iteration ends with the matching keys, or
\* with RuntimeError (dictionary changed size during iteration) when the
\* dict has another size than at the beginning.
RemoveIterEnd ==
    /\ tpc["ui"] = "r_keys"
    /\ IF Cardinality(data) # tloc["ui"].used
       THEN Raises("ui", "RuntimeError")
       ELSE /\ tloc' = [tloc EXCEPT !["ui"].keys =
                                        {k \in data : MatchesRow(k)}]
            /\ tpc' = [tpc EXCEPT !["ui"] = "r_del"]
    /\ UNCHANGED <<data, thumbfile, irow>>
    /\ UNCHANGED outsideCache

\* imagecache.py:399-400: `del self._data[key]` for one of the keys.
RemoveDel(k) ==
    /\ tpc["ui"] = "r_del"
    /\ k \in tloc["ui"].keys
    /\ IF k \in data
       THEN /\ data' = data \ {k}
            /\ tloc' = [tloc EXCEPT !["ui"].keys = @ \ {k}]
            /\ UNCHANGED tpc
       ELSE Raises("ui", "KeyError") /\ UNCHANGED data
    /\ UNCHANGED <<thumbfile, irow>>
    /\ UNCHANGED outsideCache

\* imagecache.py:402-407: the row takes its default thumbnail and colour
\* and dataChanged is emitted.  No other field of the row is written.
RemoveRow ==
    /\ tpc["ui"] = "r_del"
    /\ tloc["ui"].keys = {}
    /\ irow' = [irow EXCEPT !.thumbnail = "default",
                            !.background = "default"]
    /\ tpc' = [tpc EXCEPT !["ui"] = "removed"]
    /\ UNCHANGED <<data, tloc, thumbfile>>
    /\ UNCHANGED outsideCache

\* remove() has returned.
RemoveReturn ==
    /\ tpc["ui"] = "removed"
    /\ tpc' = [tpc EXCEPT !["ui"] = "idle"]
    /\ UNCHANGED <<data, tloc, thumbfile, irow>>
    /\ UNCHANGED outsideCache

\* A row whose thumbnail is on disk and in the cache, one whose thumbnail
\* is on disk only, and one that has none.  common.FileThumbnailLoaded is
\* False in a new row (favouriteswidget.py:211) and True once a thumbnail
\* worker has been through it (bookmarks/threads.py:641).
InitCache ==
    /\ data \in {{OtherKey}, CacheKeys}
    /\ tpc = [t \in CacheThreads |-> "idle"]
    /\ tloc = [t \in CacheThreads |-> NoLocals]
    /\ thumbfile \in BOOLEAN
    /\ ImageKey \in data => thumbfile
    /\ \E l \in BOOLEAN :
          irow = [thumbnail |-> IF ImageKey \in data THEN "image"
                                ELSE "default",
                  background |-> IF ImageKey \in data THEN "colour"
                                 ELSE "default",
                  thumbnail_loaded |-> l]
    /\ InitWorker /\ wkind = "thumb"
    /\ ParkedBq /\ ParkedStart /\ ParkedEditor
    /\ ParkedUi
    /\ ParkedPaths
    /\ ParkedMode
    /\ ParkedSettings
    /\ ParkedCall

NextCache ==
    \/ \E t \in CacheThreads : GetImage(t)
    \/ \E t \in CacheThreads : GetTest(t)
    \/ \E t \in CacheThreads : GetReturn(t)
    \/ \E t \in CacheThreads : GetLoad(t)
    \/ \E t \in CacheThreads : GetStoreColour(t)
    \/ \E t \in CacheThreads : GetStoreImage(t)
    \/ \E t \in CacheThreads : WriteRow(t)
    \/ RemoveFile
    \/ RemoveIterBegin
    \/ RemoveIterEnd
    \/ \E k \in CacheKeys : RemoveDel(k)
    \/ RemoveRow
    \/ RemoveReturn

SpecCache == InitCache /\ [][NextCache]_vars

\* The thread is between the first and the last access to the dict of one
\* lookup (236-237), one insertion (254-259) or one eviction (396-400).
InCritical(t) == tpc[t] \in {"g_ret", "g_img", "g_ret2", "r_keys", "r_del"}

\* C34: lookup, insertion and eviction exclude each other: no two threads
\* are inside one of them at once; so no lookup or insertion ends in
\* KeyError because its entry has gone, no eviction ends in RuntimeError
\* because the dict has grown under it, no lookup of a colour that was
\* stored misses it (ValueError), and no lookup hits the colour of an entry
\* whose image another thread has yet to store.
C34_CacheOperationsExclusive ==
    /\ \A t, u \in CacheThreads :
          t # u => ~(InCritical(t) /\ InCritical(u))
    /\ \A t \in CacheThreads : tpc[t] # "raised"
    /\ \A t, u \in CacheThreads :
          (t # u /\ tpc[t] = "g_ret" /\ tloc[t].k \in data)
             => tpc[u] # "g_img"

\* An insertion is lost: the thread that has stored the image finds it gone.
C34_NoLostInsertion ==
    \A t \in CacheThreads :
       ~(tpc[t] = "raised" /\ tloc[t].ret = "KeyError" /\ tloc[t].nth = 1)

\* An eviction fails.
C34_NoFailedEviction ==
    ~(tpc["ui"] = "raised" /\ tloc["ui"].ret = "RuntimeError")

\* A lookup returns the colour of an entry whose image is not stored yet.
C34_NoPartialEntry ==
    \A t, u \in CacheThreads :
       (t # u /\ tpc[t] = "g_ret" /\ tloc[t].k \in data) => tpc[u] # "g_img"

\* remove() comes to its end in this step.
RemoveEnds == tpc["ui"] # "removed" /\ tpc'["ui"] = "removed"

\* C35: when remove() has run for the row, the thumbnail file is not on
\* disk, the cache holds no key of the row's thumbnail path, the row's
\* thumbnail_loaded latch is false, and the row's thumbnail is the default.
C35_RemoveClearsFileCacheLatchField ==
    [][RemoveEnds =>
          /\ ~thumbfile'
          /\ \A k \in data' : ~MatchesRow(k)
          /\ ~irow'.thumbnail_loaded
          /\ irow'.thumbnail = "default"
      ]_vars

\* What remove() does bring about whatever the other threads do: the file
\* is gone and the row has its default thumbnail and colour.
C35_RemoveClearsFileAndField ==
    [][RemoveEnds =>
          /\ ~thumbfile'
          /\ irow'.thumbnail = "default" /\ irow'.background = "default"
      ]_vars

\* remove() leaves the latch as it found it.
C35_RemoveKeepsLatch ==
    [][irow'.thumbnail_loaded = irow.thumbnail_loaded]_vars

----------------------------------------------------------------------------
(* common.export_favourites, clear_favourites and import_favourites of      *)
(* src/bookmarks/common.py, run one after the other with the exported file  *)
(* as the source of the import.  `favourites` is the list saved under       *)
(* 'favourites' as a set; the archive is the set of the lines of its        *)
(* `favourites` member.  The dialogs are answered, not cancelled.           *)

\* Paths toggle_favourite() can have saved (baselistwidget.py:805 saves
\* file_info.filePath() as it is).
SavedPaths == {"Shot", "shot", "Seq", "seq", "env", "env "}

\* unicode.strip().lower() on these paths.
StripLower(x) ==
    CASE x = "Shot" -> "shot"
      [] x = "Seq" -> "seq"
      [] x = "env " -> "env"
      [] OTHER -> x

\* LocalSettings.favourites(), settings.py:235-246.
Favourites == {StripLower(x) : x \in favourites}

\* common.py:495, 505-511: the member `favourites` of the archive is
\* u'\n'.join(local_settings.favourites()).
ExportFavourites ==
    /\ fn = "none"
    /\ fn' = "exported"
    /\ arg' = favourites
    /\ res' = Favourites
    /\ UNCHANGED uiVars
    /\ UNCHANGED <<workerVars, pathVars, modeVars, settingsVars, laterVars>>

\* common.py:613: setValue(u'favourites', []).
ClearFavourites ==
    /\ fn = "exported"
    /\ fn' = "cleared"
    /\ favourites' = {}
    /\ UNCHANGED <<arg, res, flags, filter_mode, ta, op>>
    /\ UNCHANGED <<workerVars, pathVars, modeVars, settingsVars, laterVars>>

\* common.py:551-586: the lines of the archive, stripped and lower-cased,
\* are added to local_settings.favourites() and the result is saved.
ImportExported ==
    /\ fn = "cleared"
    /\ fn' = "imported"
    /\ favourites' = Favourites \cup {StripLower(x) : x \in res}
    /\ UNCHANGED <<arg, res, flags, filter_mode, ta, op>>
    /\ UNCHANGED <<workerVars, pathVars, modeVars, settingsVars, laterVars>>

\* Any saved favourites.
InitFavourites ==
    /\ flags = << >>
    /\ favourites \in SUBSET SavedPaths
    /\ filter_mode = [favourite |-> FALSE, archived |-> FALSE]
    /\ ta = [row |-> 0, at |-> "idle"]
    /\ op = "none"
    /\ fn = "none"
    /\ arg = {}
    /\ res = {}
    /\ InitWorker /\ wkind = "info" /\ ParkedLater
    /\ ParkedPaths
    /\ ParkedMode
    /\ ParkedSettings

NextFavourites == ExportFavourites \/ ClearFavourites \/ ImportExported

SpecFavourites == InitFavourites /\ [][NextFavourites]_vars

\* C36: after export, clear and import of the exported archive the saved
\* favourites are, as a set, those saved before the export.
C36_ExportClearImportRestores == fn = "imported" => favourites = arg

\* What the round trip does restore: the favourites as
\* LocalSettings.favourites() returns them, stripped and lower-cased.
C36_RoundTripRestoresLowered ==
    fn = "imported" => favourites = {StripLower(x) : x \in arg}

----------------------------------------------------------------------------
(* The blocking-queue workers of gwbrowser/threads.py: BaseWorker.shutdown, *)
(* add_to_queue and begin_processing, which BaseThread.run calls in the     *)
(* worker's own thread.  The queue and indexes_in_progress are attributes   *)
(* of the class, shared by every worker; shutdown_requested becomes an      *)
(* attribute of the worker once shutdown() assigns it.                      *)

BqWorkers == {"w1", "w2"}

\* The indexes a model hands to add_to_queue.
BqIndexes == {"i1", "i2"}

\* The invalid QModelIndex() that shutdown() of worker w puts.
Sentinel(w) == "invalid " \o w

\* The module names mutex but never binds it: the file has no assignment
\* to it.  Both the file as it is and the file with a QMutex bound to the
\* name by the code outside it are followed.
MutexStates == {"unbound", "free"}

\* add_to_queue: an index that is not in the queue is put.
BqAddToQueue(i) ==
    /\ i \notin bqueue
    /\ bqueue' = bqueue \cup {i}
    /\ UNCHANGED <<mutex, indexes_in_progress, wpc, windex,
                   shutdown_requested, sd, finished>>
    /\ UNCHANGED outsideBq

\* shutdown(), first statement: self.queue.put(QtCore.QModelIndex()).
ShutdownPut(w) ==
    /\ sd[w] = "idle"
    /\ bqueue' = bqueue \cup {Sentinel(w)}
    /\ sd' = [sd EXCEPT ![w] = "put"]
    /\ UNCHANGED <<mutex, indexes_in_progress, wpc, windex,
                   shutdown_requested, finished>>
    /\ UNCHANGED outsideBq

\* shutdown(), second statement: self.shutdown_requested = True.
ShutdownFlag(w) ==
    /\ sd[w] = "put"
    /\ shutdown_requested' = [shutdown_requested EXCEPT ![w] = TRUE]
    /\ sd' = [sd EXCEPT ![w] = "done"]
    /\ UNCHANGED <<mutex, bqueue, indexes_in_progress, wpc, windex,
                   finished>>
    /\ UNCHANGED outsideBq

\* while not self.shutdown_requested: the loop is left for the finally
\* clause once the flag is set.
LoopTest(w) ==
    /\ wpc[w] = "test"
    /\ wpc' = [wpc EXCEPT ![w] = IF shutdown_requested[w] THEN "finally"
                                 ELSE "get"]
    /\ UNCHANGED <<mutex, bqueue, indexes_in_progress, windex,
                   shutdown_requested, sd, finished>>
    /\ UNCHANGED outsideBq

\* index = self.queue.get(True): blocks while the queue is empty, then pops
\* any element of the set.
QueueGet(w) ==
    /\ wpc[w] = "get"
    /\ \E i \in bqueue :
          /\ bqueue' = bqueue \ {i}
          /\ windex' = [windex EXCEPT ![w] = i]
    /\ wpc' = [wpc EXCEPT ![w] = "check"]
    /\ UNCHANGED <<mutex, indexes_in_progress, shutdown_requested, sd,
                   finished>>
    /\ UNCHANGED outsideBq

\* mutex.lock() with the name unbound: NameError, which no except clause
\* takes; the finally clause runs with the index dropped.
LockRaises(w) ==
    /\ wpc[w] = "check"
    /\ mutex = "unbound"
    /\ wpc' = [wpc EXCEPT ![w] = "finally"]
    /\ UNCHANGED <<mutex, bqueue, indexes_in_progress, windex,
                   shutdown_requested, sd, finished>>
    /\ UNCHANGED outsideBq

\* mutex.lock(); while index in self.indexes_in_progress: the index is free
\* and the mutex is released, or the worker goes on to take another index
\* with the mutex held.
CheckInProgress(w) ==
    /\ wpc[w] = "check"
    /\ mutex = "free"
    /\ IF windex[w] \in indexes_in_progress
       THEN /\ mutex' = w
            /\ wpc' = [wpc EXCEPT ![w] = "get_held"]
       ELSE /\ mutex' = "free"
            /\ wpc' = [wpc EXCEPT ![w] = "record"]
    /\ UNCHANGED <<bqueue, indexes_in_progress, windex, shutdown_requested,
                   sd, finished>>
    /\ UNCHANGED outsideBq

\* index = self.queue.get(True) inside the while loop, the mutex held; the
\* loop test follows and releases the mutex when the new index is free.
GetHeld(w) ==
    /\ wpc[w] = "get_held"
    /\ mutex = w
    /\ \E i \in bqueue :
          /\ bqueue' = bqueue \ {i}
          /\ windex' = [windex EXCEPT ![w] = i]
          /\ IF i \in indexes_in_progress
             THEN UNCHANGED <<mutex, wpc>>
             ELSE /\ mutex' = "free"
                  /\ wpc' = [wpc EXCEPT ![w] = "record"]
    /\ UNCHANGED <<indexes_in_progress, shutdown_requested, sd, finished>>
    /\ UNCHANGED outsideBq

\* The second guarded block: the index is appended to indexes_in_progress
\* unless it is there.
Record(w) ==
    /\ wpc[w] = "record"
    /\ mutex = "free"
    /\ indexes_in_progress' = indexes_in_progress \cup {windex[w]}
    /\ wpc' = [wpc EXCEPT ![w] = "process"]
    /\ UNCHANGED <<mutex, bqueue, windex, shutdown_requested, sd, finished>>
    /\ UNCHANGED outsideBq

\* self.process_index(index) returns.
ProcessIndex(w) ==
    /\ wpc[w] = "process"
    /\ wpc' = [wpc EXCEPT ![w] = "unrecord"]
    /\ UNCHANGED <<mutex, bqueue, indexes_in_progress, windex,
                   shutdown_requested, sd, finished>>
    /\ UNCHANGED outsideBq

\* The third guarded block: the index is removed from indexes_in_progress
\* if it is there, and the loop goes round.
Unrecord(w) ==
    /\ wpc[w] = "unrecord"
    /\ mutex = "free"
    /\ indexes_in_progress' = indexes_in_progress \ {windex[w]}
    /\ wpc' = [wpc EXCEPT ![w] = "test"]
    /\ UNCHANGED <<mutex, bqueue, windex, shutdown_requested, sd, finished>>
    /\ UNCHANGED outsideBq

\* finally: finished is emitted when shutdown was requested; otherwise
\* begin_processing() is called again, and its loop starts.
BqFinally(w) ==
    /\ wpc[w] = "finally"
    /\ IF shutdown_requested[w]
       THEN /\ finished' = [finished EXCEPT ![w] = TRUE]
            /\ wpc' = [wpc EXCEPT ![w] = "done"]
       ELSE /\ wpc' = [wpc EXCEPT ![w] = "test"]
            /\ UNCHANGED finished
    /\ UNCHANGED <<mutex, bqueue, indexes_in_progress, windex,
                   shutdown_requested, sd>>
    /\ UNCHANGED outsideBq

\* BaseThread.run of every thread has created its worker and called
\* begin_processing; the class attributes are as the class body sets them.
InitBq ==
    /\ mutex \in MutexStates
    /\ bqueue = {}
    /\ indexes_in_progress = {}
    /\ wpc = [w \in BqWorkers |-> "test"]
    /\ windex = [w \in BqWorkers |-> "none"]
    /\ shutdown_requested = [w \in BqWorkers |-> FALSE]
    /\ sd = [w \in BqWorkers |-> "idle"]
    /\ finished = [w \in BqWorkers |-> FALSE]
    /\ InitWorker /\ wkind = "thumb"
    /\ ParkedCache /\ ParkedStart /\ ParkedEditor
    /\ ParkedUi
    /\ ParkedPaths
    /\ ParkedMode
    /\ ParkedSettings
    /\ ParkedCall

NextBq ==
    \/ \E i \in BqIndexes : BqAddToQueue(i)
    \/ \E w \in BqWorkers : ShutdownPut(w)
    \/ \E w \in BqWorkers : ShutdownFlag(w)
    \/ \E w \in BqWorkers : LoopTest(w)
    \/ \E w \in BqWorkers : QueueGet(w)
    \/ \E w \in BqWorkers : LockRaises(w)
    \/ \E w \in BqWorkers : CheckInProgress(w)
    \/ \E w \in BqWorkers : GetHeld(w)
    \/ \E w \in BqWorkers : Record(w)
    \/ \E w \in BqWorkers : ProcessIndex(w)
    \/ \E w \in BqWorkers : Unrecord(w)
    \/ \E w \in BqWorkers : BqFinally(w)

SpecBq == InitBq /\ [][NextBq]_vars

\* C37: at no time are two workers inside process_index with the same
\* index.
C37_NoTwoWorkersProcessSameIndex ==
    \A v, w \in BqWorkers :
        (v # w /\ wpc[v] = "process" /\ wpc[w] = "process")
            => windex[v] # windex[w]

\* The index a worker is inside process_index with is in
\* indexes_in_progress.
C37_ProcessingIsRecorded ==
    \A w \in BqWorkers :
        wpc[w] = "process" => windex[w] \in indexes_in_progress

\* With mutex unbound no worker ever gets to process_index.
C37_UnboundNeverProcesses ==
    mutex = "unbound" => \A w \in BqWorkers : wpc[w] # "process"

\* A worker that waits in queue.get(True) for an index that is not there.
Blocked(w) == wpc[w] \in {"get", "get_held"} /\ bqueue = {}

\* C38: once shutdown() has returned for a worker, the worker has emitted
\* finished or can still take a step towards it: it does not wait in
\* queue.get(True) on an empty queue, where it stays unless something else
\* is queued.
C38_ShutdownUnblocksWorker ==
    \A w \in BqWorkers :
        (sd[w] = "done" /\ ~finished[w]) => ~Blocked(w)

\* finished is emitted only by a worker whose shutdown was requested.
C38_FinishedOnlyAfterShutdown ==
    \A w \in BqWorkers : finished[w] => shutdown_requested[w]

----------------------------------------------------------------------------
(* Several processes start side by side on one data directory: each        *)
(* constructs its LocalSettings, which calls get_mode, and may later write *)
(* its lock file with save_mode_lockfile.  Nothing is held between the two *)
(* calls, and nothing keeps another process from running in between.       *)

\* The processes that start.
StartPids == {"a", "b"}

\* A lock file that a process that has ended may have left.
StaleLocks == {[pid |-> "z", data |-> "0"]}

\* What save_mode_lockfile of process p leaves when its mode is v.
WriteLockOf(files, p, v) ==
    {f \in Pruned(files) : f.pid # p} \cup {[pid |-> p, data |-> Format(v)]}

\* LocalSettings.__init__ in process p: self._current_mode =
\* self.get_mode(), which prune_lockfile wraps.  No lock file is written.
StartupOf(p) ==
    /\ p \in alive /\ pmodes[p] = {}
    /\ locks' = Pruned(locks)
    /\ dropped' = dropped \cup (locks \ Pruned(locks))
    /\ pmodes' = [pmodes EXCEPT ![p] = {GetMode(Pruned(locks))}]
    /\ UNCHANGED alive
    /\ UNCHANGED outsideStart

\* save_mode_lockfile() in process p.
SaveModeLockfileOf(p) ==
    /\ p \in alive /\ pmodes[p] # {}
    /\ \E v \in pmodes[p] : locks' = WriteLockOf(locks, p, v)
    /\ dropped' = dropped \cup (locks \ Pruned(locks))
    /\ UNCHANGED <<alive, pmodes>>
    /\ UNCHANGED outsideStart

\* Process p ends; its lock file stays.
ExitOf(p) ==
    /\ p \in alive /\ pmodes[p] # {}
    /\ alive' = alive \ {p}
    /\ UNCHANGED <<locks, dropped, pmodes>>
    /\ UNCHANGED outsideStart

\* A new process runs under the pid of one that has ended.
LaunchOf(p) ==
    /\ p \notin alive
    /\ alive' = alive \cup {p}
    /\ pmodes' = [pmodes EXCEPT ![p] = {}]
    /\ UNCHANGED <<locks, dropped>>
    /\ UNCHANGED outsideStart

\* The processes run and none has constructed its LocalSettings; a stale
\* lock file may lie in the data directory.
InitStart ==
    /\ locks \in SUBSET StaleLocks
    /\ alive = StartPids
    /\ dropped = {}
    /\ mode = {}
    /\ pmodes = [p \in StartPids |-> {}]
    /\ InitWorker /\ wkind = "info"
    /\ ParkedCache /\ ParkedBq /\ ParkedEditor
    /\ ParkedUi
    /\ ParkedPaths
    /\ ParkedSettings
    /\ ParkedCall

NextStart ==
    \/ \E p \in StartPids : StartupOf(p)
    \/ \E p \in StartPids : SaveModeLockfileOf(p)
    \/ \E p \in StartPids : ExitOf(p)
    \/ \E p \in StartPids : LaunchOf(p)

SpecStart == InitStart /\ [][NextStart]_vars

\* C39: at any time at most one running process is in Synchronised mode.
C39_AtMostOneSynchronised ==
    \A p, q \in StartPids :
        (p \in alive /\ q \in alive
            /\ pmodes[p] = {SynchronisedMode}
            /\ pmodes[q] = {SynchronisedMode}) => p = q

\* A process that starts when the lock file of a running process records
\* Synchronised mode starts in Solo mode.
C39_StartsSoloBesideWrittenLock ==
    [][\A p \in StartPids :
          (pmodes[p] = {} /\ pmodes'[p] # {}
              /\ \E f \in locks : f.pid \in alive /\ f.data = "0")
            => pmodes'[p] = {SoloMode}
      ]_vars

----------------------------------------------------------------------------
(* The lock of the notes editor: TodoEditorWidget.__init__, init_lock,     *)
(* unlock, hideEvent and showEvent.  The editors of one item run in the    *)
(* processes of different users and share the item's .lock file, a         *)
(* QSettings file with the keys open and stamp.                            *)

Editors == {"e1", "e2"}

\* Values of int(round(time.time() * 1000)); two editors can draw the same.
Stamps == {1, 2}

\* The value of stamp when the key is unset or holds None.
NoStamp == 0

\* The lock file before any editor has written it, and after unlock().
LockClosed == [open |-> FALSE, stamp |-> NoStamp]

\* TodoEditorWidget.__init__ up to the call of init_lock: read_only is
\* False and the lockstamp is the time in milliseconds.
Construct(e, s) ==
    /\ est[e] = "none"
    /\ est' = [est EXCEPT ![e] = "created"]
    /\ ero' = [ero EXCEPT ![e] = FALSE]
    /\ estamp' = [estamp EXCEPT ![e] = s]
    /\ UNCHANGED <<elock, eseen>>
    /\ UNCHANGED outsideEditor

\* init_lock, the two reads: self.lock.value(u'open') and
\* self.lock.value(u'stamp').
InitLockRead(e) ==
    /\ est[e] = "created"
    /\ eseen' = [eseen EXCEPT ![e] = elock]
    /\ est' = [est EXCEPT ![e] = "read"]
    /\ UNCHANGED <<elock, ero, estamp>>
    /\ UNCHANGED outsideEditor

\* What init_lock leaves in the lock file, given what it has read.
LockAfterInit(seen, stamp, file) ==
    IF ~seen.open THEN [open |-> TRUE, stamp |-> stamp]
    ELSE IF seen.stamp = stamp THEN [file EXCEPT !.stamp = stamp]
    ELSE file

\* init_lock, the three branches: the lock is not open, it is open with
\* this editor's stamp, it is open with another stamp.
InitLockDecide(e) ==
    /\ est[e] = "read"
    /\ ero' = [ero EXCEPT ![e] = eseen[e].open /\ eseen[e].stamp # estamp[e]]
    /\ elock' = LockAfterInit(eseen[e], estamp[e], elock)
    /\ est' = [est EXCEPT ![e] = "shown"]
    /\ UNCHANGED <<estamp, eseen>>
    /\ UNCHANGED outsideEditor

\* unlock(): the lock is closed when it is open with this editor's stamp.
Unlocked(file, stamp) ==
    IF file.open /\ file.stamp = stamp THEN LockClosed ELSE file

\* hideEvent: save_settings when not read-only, then unlock().
HideEvent(e) ==
    /\ est[e] = "shown"
    /\ elock' = Unlocked(elock, estamp[e])
    /\ est' = [est EXCEPT ![e] = "hidden"]
    /\ UNCHANGED <<ero, estamp, eseen>>
    /\ UNCHANGED outsideEditor

\* showEvent: the widget is resized and refreshed; init_lock is not called.
ShowEvent(e) ==
    /\ est[e] = "hidden"
    /\ est' = [est EXCEPT ![e] = "shown"]
    /\ UNCHANGED <<elock, ero, estamp, eseen>>
    /\ UNCHANGED outsideEditor

\* The widget is closed and deleted (WA_DeleteOnClose): destroyed is
\* connected to unlock.
Destroyed(e) ==
    /\ est[e] = "hidden"
    /\ elock' = Unlocked(elock, estamp[e])
    /\ est' = [est EXCEPT ![e] = "none"]
    /\ UNCHANGED <<ero, estamp, eseen>>
    /\ UNCHANGED outsideEditor

\* No editor is open and the lock file is closed.
InitEditor ==
    /\ elock = LockClosed
    /\ est = [e \in Editors |-> "none"]
    /\ ero = [e \in Editors |-> FALSE]
    /\ estamp = [e \in Editors |-> 1]
    /\ eseen = [e \in Editors |-> LockClosed]
    /\ InitWorker /\ wkind = "info"
    /\ ParkedCache /\ ParkedBq /\ ParkedStart
    /\ ParkedUi
    /\ ParkedPaths
    /\ ParkedMode
    /\ ParkedSettings
    /\ ParkedCall

NextEditor ==
    \/ \E e \in Editors, s \in Stamps : Construct(e, s)
    \/ \E e \in Editors : InitLockRead(e)
    \/ \E e \in Editors : InitLockDecide(e)
    \/ \E e \in Editors : HideEvent(e)
    \/ \E e \in Editors : ShowEvent(e)
    \/ \E e \in Editors : Destroyed(e)

SpecEditor == InitEditor /\ [][NextEditor]_vars

\* An editor whose widget is shown and not read-only.
Writable(e) == est[e] = "shown" /\ ~ero[e]

\* C40: at most one editor of the item is writable at a time.
C40_AtMostOneWritable ==
    \A d, e \in Editors : (Writable(d) /\ Writable(e)) => d = e

\* An editor that reads the lock open with a stamp that is not its own
\* becomes read-only.
C40_ReadOnlyBesideForeignStamp ==
    [][\A e \in Editors :
          (est[e] = "read" /\ est'[e] = "shown"
              /\ eseen[e].open /\ eseen[e].stamp # estamp[e])
            => ero'[e]
      ]_vars

\* unlock() of an editor leaves a lock that holds another stamp as it is.
C40_OnlyOwnStampReleases ==
    [][\A e \in Editors :
          (est[e] \in {"shown", "hidden"} /\ est'[e] # est[e]
              /\ elock.open /\ elock.stamp # estamp[e])
            => elock' = elock
      ]_vars

====
